---- MODULE Spec2Model ----
(***************************************************************************)
(* Model of the YouTube Speed Control extension: the keyHandler shortcut   *)
(* registry (bind / unbind / unbindAll / getComboFromEvent and the DOM     *)
(* listeners that dispatch to it) and the content script that installs the *)
(* speed shortcuts from stored settings.                                   *)
(*                                                                         *)
(* JavaScript strings are sequences of one-character strings, so that      *)
(* toLowerCase, split, trim and join are computed rather than assumed.     *)
(* JavaScript values that may be of several types are records with a type  *)
(* tag t.                                                                  *)
(***************************************************************************)
EXTENDS Integers, Sequences, FiniteSets, TLC

\* ------------------------------------------------------------------------
\* Bounds of the model
\* ------------------------------------------------------------------------

\* largest number of bindings the registry holds in the model
MaxBindings == 2

\* largest value of the millisecond clock Date.now() (it starts at 1)
MaxNow == 2

\* number of values Math.floor(Math.random() * 1000) ranges over in the model
RandRange == 2

\* largest number of calls of initializeShortcuts in one run of the model
MaxEpoch == 2

\* largest number of pending setTimeout(init, 1000) timers
MaxTimers == 1

\* shortcut callbacks that run
MaxPresses == 2

\* video elements the page creates
MaxVideos == 2

\* calls of handleKeyBinding in the settings panel
MaxSessions == 2

\* ------------------------------------------------------------------------
\* JavaScript values
\* ------------------------------------------------------------------------

JsString(chars) == [t |-> "string", s |-> chars, n |-> 0]

JsNumber(k) == [t |-> "number", s |-> <<>>, n |-> k]

JsBoolean(b) == [t |-> "boolean", s |-> <<>>, n |-> IF b THEN 1 ELSE 0]

JsUndefined == [t |-> "undefined", s |-> <<>>, n |-> 0]

\* !v
Falsy(v) ==
    \/ v.t = "undefined"
    \/ v.t = "string" /\ v.s = <<>>
    \/ v.t = "number" /\ v.n = 0
    \/ v.t = "boolean" /\ v.n = 0

\* a function value: fn names the function, ret is what a call returns,
\* epoch identifies the closure's creation (0 for callers outside the
\* content script)
JsFunction(name, ret, epoch) == [t |-> "function", fn |-> name, ret |-> ret, epoch |-> epoch]

NotAFunction == [t |-> "undefined", fn |-> "", ret |-> JsUndefined, epoch |-> 0]

\* ------------------------------------------------------------------------
\* String primitives
\* ------------------------------------------------------------------------

UpperCase == <<"A","B","C","D","E","F","G","H","I","J","K","L","M",
               "N","O","P","Q","R","S","T","U","V","W","X","Y","Z">>

LowerCase == <<"a","b","c","d","e","f","g","h","i","j","k","l","m",
               "n","o","p","q","r","s","t","u","v","w","x","y","z">>

ToLowerChar(c) ==
    IF \E i \in 1..26 : UpperCase[i] = c
    THEN LowerCase[CHOOSE i \in 1..26 : UpperCase[i] = c]
    ELSE c

\* String.prototype.toLowerCase
ToLowerCase(s) == [i \in 1..Len(s) |-> ToLowerChar(s[i])]

WhiteSpace == {" ", "\t", "\n"}

RECURSIVE TrimStart(_)
TrimStart(s) ==
    IF s # <<>> /\ Head(s) \in WhiteSpace THEN TrimStart(Tail(s)) ELSE s

RECURSIVE TrimEnd(_)
TrimEnd(s) ==
    IF s # <<>> /\ s[Len(s)] \in WhiteSpace
    THEN TrimEnd(SubSeq(s, 1, Len(s) - 1))
    ELSE s

\* String.prototype.trim
Trim(s) == TrimEnd(TrimStart(s))

\* String.prototype.split(sep) for a one-character separator
RECURSIVE SplitAcc(_, _, _)
SplitAcc(s, sep, cur) ==
    IF s = <<>> THEN <<cur>>
    ELSE IF Head(s) = sep
         THEN <<cur>> \o SplitAcc(Tail(s), sep, <<>>)
         ELSE SplitAcc(Tail(s), sep, Append(cur, Head(s)))

Split(s, sep) == SplitAcc(s, sep, <<>>)

\* Array.prototype.join(sep)
RECURSIVE Join(_, _)
Join(parts, sep) ==
    IF parts = <<>> THEN <<>>
    ELSE IF Len(parts) = 1 THEN parts[1]
    ELSE parts[1] \o <<sep>> \o Join(Tail(parts), sep)

Digits == <<"0","1","2","3","4","5","6","7","8","9">>

\* String(n) for a non-negative integer
RECURSIVE NumberToString(_)
NumberToString(k) ==
    IF k < 10 THEN <<Digits[k + 1]>>
    ELSE NumberToString(k \div 10) \o <<Digits[(k % 10) + 1]>>

\* ------------------------------------------------------------------------
\* String literals of the program
\* ------------------------------------------------------------------------

STR_shift == <<"s","h","i","f","t">>
STR_ctrl == <<"c","t","r","l">>
STR_control == <<"c","o","n","t","r","o","l">>
STR_alt == <<"a","l","t">>
STR_cmd == <<"c","m","d">>
STR_command == <<"c","o","m","m","a","n","d">>
STR_meta == <<"m","e","t","a">>
STR_option == <<"o","p","t","i","o","n">>
STR_space == <<"s","p","a","c","e">>
STR_wheel_up == <<"w","h","e","e","l","_","u","p">>
STR_wheel_down == <<"w","h","e","e","l","_","d","o","w","n">>
STR_middle_click == <<"m","i","d","d","l","e","_","c","l","i","c","k">>
STR_mouse == <<"m","o","u","s","e">>

\* values of KeyboardEvent.key for the modifier keys
KEY_Shift == <<"S","h","i","f","t">>
KEY_Control == <<"C","o","n","t","r","o","l">>
KEY_Alt == <<"A","l","t">>
KEY_Meta == <<"M","e","t","a">>

\* ------------------------------------------------------------------------
\* keyHandler: pure functions
\* ------------------------------------------------------------------------

\* parseCombo(combo) for a string or falsy combo; a truthy value that is not
\* a string has no toLowerCase method, see parseComboThrows
parseCombo(combo) ==
    IF Falsy(combo) THEN <<>>
    ELSE LET parts == Split(ToLowerCase(combo.s), "+")
         IN [i \in 1..Len(parts) |-> Trim(parts[i])]

\* combo.toLowerCase() raises a TypeError when combo is truthy and not a string
parseComboThrows(combo) == ~Falsy(combo) /\ combo.t # "string"

\* normalizeKey without the alias of the shifted character ">"
normalizeKey_NoGreaterAlias(key) ==
    IF key = STR_control THEN STR_ctrl
    ELSE IF key = STR_command \/ key = STR_meta THEN STR_cmd
    ELSE IF key = STR_option THEN STR_alt
    ELSE IF key = <<"<">> THEN <<",">>
    ELSE IF key = <<" ">> THEN STR_space
    ELSE ToLowerCase(key)

\* normalizeKey without the alias of the shifted character "<"
normalizeKey_NoLessAlias(key) ==
    IF key = STR_control THEN STR_ctrl
    ELSE IF key = STR_command \/ key = STR_meta THEN STR_cmd
    ELSE IF key = STR_option THEN STR_alt
    ELSE IF key = <<">">> THEN <<".">>
    ELSE IF key = <<" ">> THEN STR_space
    ELSE ToLowerCase(key)

normalizeKey(key) ==
    IF key = STR_control THEN STR_ctrl
    ELSE IF key = STR_command \/ key = STR_meta THEN STR_cmd
    ELSE IF key = STR_option THEN STR_alt
    ELSE IF key = <<">">> THEN <<".">>
    ELSE IF key = <<"<">> THEN <<",">>
    ELSE IF key = <<" ">> THEN STR_space
    ELSE ToLowerCase(key)

\* modifierKeys pushing ctrl ahead of shift
modifierKeys_CtrlFirst(event) ==
    (IF event.ctrlKey THEN <<STR_ctrl>> ELSE <<>>) \o
    (IF event.shiftKey THEN <<STR_shift>> ELSE <<>>) \o
    (IF event.altKey THEN <<STR_alt>> ELSE <<>>) \o
    (IF event.metaKey THEN <<STR_cmd>> ELSE <<>>)

\* the modifier tokens pushed first, in the order of the four if statements
modifierKeys(event) ==
    (IF event.shiftKey THEN <<STR_shift>> ELSE <<>>) \o
    (IF event.ctrlKey THEN <<STR_ctrl>> ELSE <<>>) \o
    (IF event.altKey THEN <<STR_alt>> ELSE <<>>) \o
    (IF event.metaKey THEN <<STR_cmd>> ELSE <<>>)

\* getComboFromEvent taking a wheel event with deltaY 0 for a scroll up
getComboFromEvent_WheelZeroUp(event) ==
    LET keys == modifierKeys(event) IN
    IF event.type = "wheel"
    THEN Join(Append(keys, IF event.deltaY <= 0 THEN STR_wheel_up ELSE STR_wheel_down), "+")
    ELSE IF event.type = "mousedown"
    THEN IF event.button = 1
         THEN Join(Append(keys, STR_middle_click), "+")
         ELSE Join(Append(keys, STR_mouse \o NumberToString(event.button + 1)), "+")
    ELSE LET key == ToLowerCase(event.key) IN
         IF key = STR_shift \/ key = STR_control \/ key = STR_alt \/ key = STR_meta
         THEN <<>>
         ELSE Join(Append(keys, normalizeKey(key)), "+")

\* getComboFromEvent naming a mouse button by its 0-based index
getComboFromEvent_ButtonZeroBased(event) ==
    LET keys == modifierKeys(event) IN
    IF event.type = "wheel"
    THEN Join(Append(keys, IF event.deltaY < 0 THEN STR_wheel_up ELSE STR_wheel_down), "+")
    ELSE IF event.type = "mousedown"
    THEN IF event.button = 1
         THEN Join(Append(keys, STR_middle_click), "+")
         ELSE Join(Append(keys, STR_mouse \o NumberToString(event.button)), "+")
    ELSE LET key == ToLowerCase(event.key) IN
         IF key = STR_shift \/ key = STR_control \/ key = STR_alt \/ key = STR_meta
         THEN <<>>
         ELSE Join(Append(keys, normalizeKey(key)), "+")

\* getComboFromEvent without the early return for a bare modifier key
getComboFromEvent_NoModifierSkip(event) ==
    LET keys == modifierKeys(event) IN
    IF event.type = "wheel"
    THEN Join(Append(keys, IF event.deltaY < 0 THEN STR_wheel_up ELSE STR_wheel_down), "+")
    ELSE IF event.type = "mousedown"
    THEN IF event.button = 1
         THEN Join(Append(keys, STR_middle_click), "+")
         ELSE Join(Append(keys, STR_mouse \o NumberToString(event.button + 1)), "+")
    ELSE Join(Append(keys, normalizeKey(ToLowerCase(event.key))), "+")

getComboFromEvent(event) ==
    LET keys == modifierKeys(event) IN
    IF event.type = "wheel"
    THEN Join(Append(keys, IF event.deltaY < 0 THEN STR_wheel_up ELSE STR_wheel_down), "+")
    ELSE IF event.type = "mousedown"
    THEN IF event.button = 1
         THEN Join(Append(keys, STR_middle_click), "+")
         ELSE Join(Append(keys, STR_mouse \o NumberToString(event.button + 1)), "+")
    ELSE LET key == ToLowerCase(event.key) IN
         IF key = STR_shift \/ key = STR_control \/ key = STR_alt \/ key = STR_meta
         THEN <<>>
         ELSE Join(Append(keys, normalizeKey(key)), "+")

\* ------------------------------------------------------------------------
\* Content script: playback speed
\* ------------------------------------------------------------------------

\* a speed is a whole number of half hundredths of the normal speed 1.0, so
\* that the midpoint of two speeds of two decimals is a speed too
Hundredth == 2

One == 100 * Hundredth

MAX_SPEED == 16 * One

Max(a, b) == IF a >= b THEN a ELSE b

Min(a, b) == IF a <= b THEN a ELSE b

Abs(a) == IF a >= 0 THEN a ELSE 0 - a

\* Math.round(speed * 100) / 100, and parseFloat(speed.toFixed(2)) for the
\* speeds of the model, which are never negative where toFixed reads them
RoundToHundredths(speed) == ((speed + Hundredth \div 2) \div Hundredth) * Hundredth

\* a video element as the page creates it: the native playbackRate is 1.0 and
\* the attributes data-custom-speed-enabled and data-custom-speed are absent
\* (rate stands for the native rate, and for data-custom-speed once enabled)
NewVideo == [rate |-> One, enabled |-> FALSE, minSpeed |-> 0]

\* window._speedControlSettings before anything is assigned to it
NoSettings ==
    [defined |-> FALSE, speedIncrement |-> JsUndefined, enableShortcuts |-> JsUndefined]

\* a settings object with its entries speedIncrement and enableShortcuts
Settings(speedIncrement, enableShortcuts) ==
    [defined |-> TRUE, speedIncrement |-> speedIncrement, enableShortcuts |-> enableShortcuts]

\* reading video.playbackRate: the getter of removeSpeedLimit once it is
\* installed, the native property before
playbackRateGet(v) ==
    IF v.enabled /\ v.rate = 0 THEN One ELSE v.rate

\* the setter without its rounding
playbackRateSet_NoRounding(v, cached, speed) ==
    IF v.enabled
    THEN LET currentMinSpeed ==
                 IF cached.defined /\ ~Falsy(cached.speedIncrement)
                 THEN cached.speedIncrement.n ELSE v.minSpeed
         IN [v EXCEPT !.rate = Max(currentMinSpeed, Min(MAX_SPEED, speed))]
    ELSE [v EXCEPT !.rate = speed]

\* assigning video.playbackRate: the setter of removeSpeedLimit once it is
\* installed, the native property before
playbackRateSet(v, cached, speed) ==
    IF v.enabled
    THEN LET currentMinSpeed ==
                 IF cached.defined /\ ~Falsy(cached.speedIncrement)
                 THEN cached.speedIncrement.n ELSE v.minSpeed
         IN [v EXCEPT !.rate = RoundToHundredths(Max(currentMinSpeed, Min(MAX_SPEED, speed)))]
    ELSE [v EXCEPT !.rate = speed]

\* applySpeedWithTransition(video, targetSpeed) for the element g of the page
\* pg: a change of more than 0.3 is left to the animation frames
applySpeedWithTransition(pg, cached, g, targetSpeed) ==
    LET currentSpeed == playbackRateGet(pg.videos[g]) IN
    IF Abs(targetSpeed - currentSpeed) > 30 * Hundredth
    THEN [pg EXCEPT !.anims = Append(@, [g |-> g, from |-> currentSpeed,
                                          to |-> targetSpeed, frame |-> 0])]
    ELSE [pg EXCEPT !.videos[g] = playbackRateSet(@, cached, targetSpeed)]

\* changeSpeed(video, increment, increase, reset) for the element g; the
\* write of lastSpeed is taken as done when changeSpeed returns
changeSpeed(pg, cached, g, increment, increase, reset) ==
    LET currentSpeed == RoundToHundredths(playbackRateGet(pg.videos[g]))
        newSpeed == IF reset THEN One
                    ELSE IF increase THEN currentSpeed + increment
                    ELSE currentSpeed - increment
        clamped == RoundToHundredths(Max(increment, Min(MAX_SPEED, newSpeed)))
        applied == applySpeedWithTransition(pg, cached, g, clamped)
    IN [applied EXCEPT !.storage.lastSpeed = JsNumber(clamped)]

\* animateSpeed, one callback of an animation frame: the first frame comes
\* 15 ms after the start, where the eased progress is one half, the second
\* after the 150 ms of the transition
animateSpeed(pg, cached, a) ==
    IF a.frame = 0
    THEN [pg EXCEPT !.videos[a.g] =
                        playbackRateSet(@, cached, a.from + (a.to - a.from) \div 2),
                    !.anims = Append(@, [a EXCEPT !.frame = 1])]
    ELSE [pg EXCEPT !.videos[a.g] = playbackRateSet(@, cached, a.to)]

\* the callbacks requested for one animation frame, in the order of their
\* requests
RECURSIVE animationFrameResult(_, _, _)
animationFrameResult(pg, cached, queue) ==
    IF queue = <<>> THEN pg
    ELSE animationFrameResult(animateSpeed(pg, cached, Head(queue)), cached, Tail(queue))

ShortcutNames == {"increase", "decrease", "reset"}

\* the closures of initializeShortcuts among the callbacks at the positions
\* invoked of the registry bs
ShortcutsInvoked(bs, invoked) ==
    SelectSeq(invoked, LAMBDA i : bs[i].callback.fn \in ShortcutNames)

\* the callbacks at the positions invoked run in turn: a closure of
\* initializeShortcuts calls changeSpeed with the video and the increment it
\* has captured (env), any other callback leaves the page alone
RECURSIVE runCallbacks(_, _, _, _, _)
runCallbacks(pg, cached, env, bs, invoked) ==
    IF invoked = <<>> THEN pg
    ELSE LET cb == bs[Head(invoked)].callback
             next == IF cb.fn \in ShortcutNames
                     THEN changeSpeed(pg, cached, env[cb.epoch].g, env[cb.epoch].increment,
                                      cb.fn = "increase", cb.fn = "reset")
                     ELSE pg
         IN runCallbacks(next, cached, env, bs, Tail(invoked))

\* ------------------------------------------------------------------------
\* State
\* ------------------------------------------------------------------------

VARIABLES
    bindings,       \* keyHandler: the list of active bindings
    modifierState,  \* keyHandler: cached state of the modifier keys
    now,            \* the millisecond clock read by Date.now()
    last,           \* the most recent call or event with its outcome
    cleared,        \* history: the combos the latest unbindAll removed, while
                    \* no binding has been stored since
    storage,        \* browser.storage.local: the stored shortcut settings
    video,          \* whether the document holds a video element
    href,           \* location.href
    lastUrl,        \* content script: lastUrl of setupUrlObserver
    timers,         \* content script: pending setTimeout(init, 1000) timers
    tasks,          \* content script: the calls of initializeShortcuts whose
                    \* storage read is still pending
    epoch,          \* content script: number of calls of initializeShortcuts
    videos,         \* the video elements the page has created, the last of
                    \* which is in the document while video holds
    cache,          \* content script: window._speedControlSettings
    closures,       \* content script: what the closures of each call of
                    \* initializeShortcuts have captured
    anims,          \* the callbacks requested for the next animation frame
    jobs,           \* the pending promises and timers of the speed functions
    presses,        \* number of shortcut callbacks that have run
    recording       \* settings panel: the recording sessions of its shortcut
                    \* buttons, the buttons' class and text

keyHandlerVars == <<bindings, modifierState, now, cleared, recording>>

\* what a shortcut callback leaves alone
scriptVars == <<video, href, lastUrl, timers, tasks, epoch, cache, closures, jobs, recording>>

pageVars == <<videos, cache, closures, anims, jobs, presses>>

contentVars == <<storage, video, href, lastUrl, timers, tasks, epoch,
                 videos, cache, closures, anims, jobs, presses, recording>>

vars == <<bindings, modifierState, now, last, cleared,
          storage, video, href, lastUrl, timers, tasks, epoch,
          videos, cache, closures, anims, jobs, presses, recording>>

\* ------------------------------------------------------------------------
\* keyHandler: registry operations
\* ------------------------------------------------------------------------

\* bind whose guard rejects only when both arguments are invalid
bindResult_GuardWithAnd(bs, t, r, combo, callback) ==
    IF Falsy(combo) /\ callback.t # "function"
    THEN [bindings |-> bs, ret |-> JsNumber(-1), threw |-> FALSE]
    ELSE IF parseComboThrows(combo)
    THEN [bindings |-> bs, ret |-> JsUndefined, threw |-> TRUE]
    ELSE LET id == t + r IN
         [bindings |-> Append(bs, [id |-> id, keys |-> parseCombo(combo),
                                   combo |-> combo, callback |-> callback]),
          ret |-> JsNumber(id), threw |-> FALSE]

\* bind(combo, callback) at clock value t with random draw r: the new list,
\* the value returned and whether an exception left the call
bindResult(bs, t, r, combo, callback) ==
    IF Falsy(combo) \/ callback.t # "function"
    THEN [bindings |-> bs, ret |-> JsNumber(-1), threw |-> FALSE]
    ELSE IF parseComboThrows(combo)
    THEN [bindings |-> bs, ret |-> JsUndefined, threw |-> TRUE]
    ELSE LET id == t + r IN
         [bindings |-> Append(bs, [id |-> id, keys |-> parseCombo(combo),
                                   combo |-> combo, callback |-> callback]),
          ret |-> JsNumber(id), threw |-> FALSE]

\* the list without its element at position i (Array.prototype.splice(i, 1))
Splice(bs, i) == SubSeq(bs, 1, i - 1) \o SubSeq(bs, i + 1, Len(bs))

\* bindings.findIndex(binding => binding.id === n), 0 when there is none
findIndexById(bs, n) ==
    IF \E i \in 1..Len(bs) : bs[i].id = n
    THEN CHOOSE i \in 1..Len(bs) : bs[i].id = n /\ \A j \in 1..(i - 1) : bs[j].id # n
    ELSE 0

\* the loop of unbind leaving at its first removal
RECURSIVE unbindLoop_StopsAtFirst(_, _, _)
unbindLoop_StopsAtFirst(bs, i, v) ==
    IF i = 0 THEN bs
    ELSE IF bs[i].combo = v
         THEN Splice(bs, i)
         ELSE unbindLoop_StopsAtFirst(bs, i - 1, v)

\* the loop of unbind from the last index i down to the first
RECURSIVE unbindLoop(_, _, _)
unbindLoop(bs, i, v) ==
    IF i = 0 THEN bs
    ELSE IF bs[i].combo = v
         THEN unbindLoop(Splice(bs, i), i - 1, v)
         ELSE unbindLoop(bs, i - 1, v)

unbindResult(bs, idOrCombo) ==
    IF Falsy(idOrCombo)
    THEN [bindings |-> bs, ret |-> JsBoolean(FALSE)]
    ELSE IF idOrCombo.t = "number"
    THEN LET index == findIndexById(bs, idOrCombo.n) IN
         IF index # 0
         THEN [bindings |-> Splice(bs, index), ret |-> JsBoolean(TRUE)]
         ELSE [bindings |-> bs, ret |-> JsBoolean(FALSE)]
    ELSE LET rest == unbindLoop(bs, Len(bs), idOrCombo) IN
         [bindings |-> rest, ret |-> JsBoolean(rest # bs)]

\* unbindAll truncating the list to one element instead of none
unbindAllResult_KeepsFirst(bs) == IF bs = <<>> THEN <<>> ELSE <<bs[1]>>

\* bindings.length = 0
unbindAllResult(bs) == <<>>

\* ------------------------------------------------------------------------
\* keyHandler: dispatch
\* ------------------------------------------------------------------------

\* the matching positions with the last binding of the list first
RECURSIVE matchesFrom_LastFirst(_, _, _)
matchesFrom_LastFirst(bs, i, combo) ==
    IF i > Len(bs) THEN <<>>
    ELSE IF bs[i].combo = JsString(combo)
         THEN matchesFrom_LastFirst(bs, i + 1, combo) \o <<i>>
         ELSE matchesFrom_LastFirst(bs, i + 1, combo)

\* positions of the bindings whose stored combo === combo, in list order
RECURSIVE matchesFrom(_, _, _)
matchesFrom(bs, i, combo) ==
    IF i > Len(bs) THEN <<>>
    ELSE IF bs[i].combo = JsString(combo)
         THEN <<i>> \o matchesFrom(bs, i + 1, combo)
         ELSE matchesFrom(bs, i + 1, combo)

matches(bs, combo) == matchesFrom(bs, 1, combo)

\* the modifier bookkeeping at the head of handleKeyEvent
updateModifierState(ms, event) ==
    LET down == (event.type = "keydown") IN
    IF event.type \notin {"keydown", "keyup"} THEN ms
    ELSE IF event.key = KEY_Shift THEN [ms EXCEPT !.shift = down]
    ELSE IF event.key = KEY_Control THEN [ms EXCEPT !.ctrl = down]
    ELSE IF event.key = KEY_Alt THEN [ms EXCEPT !.alt = down]
    ELSE IF event.key = KEY_Meta THEN [ms EXCEPT !.meta = down]
    ELSE ms

\* handleKeyEvent suppressing the event for every falsy result (!result)
handleKeyEventResult_FalsySuppresses(bs, ms, event) ==
    LET ms2 == updateModifierState(ms, event)
        combo == getComboFromEvent(event)
        hit == matches(bs, combo)
        none == [modifierState |-> ms2, combo |-> <<>>, invoked |-> <<>>,
                 prevented |-> FALSE, stopped |-> FALSE]
    IN IF event.type # "keydown" THEN none
       ELSE IF combo = <<>> THEN none
       ELSE LET suppress == \E k \in 1..Len(hit) : Falsy(bs[hit[k]].callback.ret) IN
            [modifierState |-> ms2, combo |-> combo, invoked |-> hit,
             prevented |-> suppress, stopped |-> suppress]

\* handleKeyEvent(event): the new modifier state, the positions of the
\* bindings whose callback ran (in call order) and the effect on the event
handleKeyEventResult(bs, ms, event) ==
    LET ms2 == updateModifierState(ms, event)
        combo == getComboFromEvent(event)
        hit == matches(bs, combo)
        none == [modifierState |-> ms2, combo |-> <<>>, invoked |-> <<>>,
                 prevented |-> FALSE, stopped |-> FALSE]
    IN IF event.type # "keydown" THEN none
       ELSE IF combo = <<>> THEN none
       ELSE LET suppress == \E k \in 1..Len(hit) : bs[hit[k]].callback.ret = JsBoolean(FALSE) IN
            [modifierState |-> ms2, combo |-> combo, invoked |-> hit,
             prevented |-> suppress, stopped |-> suppress]

\* handleMouseEvent(event): the positions of the bindings whose callback ran
handleMouseEventResult(bs, event) ==
    LET combo == getComboFromEvent(event)
        hit == matches(bs, combo)
    IN IF combo = <<>> THEN <<>>
       ELSE IF hit # <<>> THEN <<hit[1]>>
       ELSE <<>>

\* the mousedown listener without the test for the left button
mousedownListenerResult_AnyButton(bs, event) ==
    LET combo == getComboFromEvent(event)
        comboBound == \E i \in 1..Len(bs) : bs[i].combo = JsString(combo)
    IN IF comboBound
       THEN [combo |-> combo, invoked |-> handleMouseEventResult(bs, event),
             prevented |-> TRUE, stopped |-> TRUE]
       ELSE [combo |-> combo, invoked |-> <<>>, prevented |-> FALSE, stopped |-> FALSE]

\* the mousedown listener suppressing the event before it knows of a binding
mousedownListenerResult_SuppressesUnbound(bs, event) ==
    LET combo == getComboFromEvent(event)
    IN IF event.button # 0
       THEN [combo |-> combo, invoked |-> handleMouseEventResult(bs, event),
             prevented |-> TRUE, stopped |-> TRUE]
       ELSE [combo |-> combo, invoked |-> <<>>, prevented |-> FALSE, stopped |-> FALSE]

\* the capture listener registered for mousedown
mousedownListenerResult(bs, event) ==
    LET combo == getComboFromEvent(event)
        comboBound == \E i \in 1..Len(bs) : bs[i].combo = JsString(combo)
    IN IF event.button # 0 /\ comboBound
       THEN [combo |-> combo, invoked |-> handleMouseEventResult(bs, event),
             prevented |-> TRUE, stopped |-> TRUE]
       ELSE [combo |-> combo, invoked |-> <<>>, prevented |-> FALSE, stopped |-> FALSE]

\* the capture listener registered for wheel is handleMouseEvent itself
wheelListenerResult(bs, event) ==
    [combo |-> getComboFromEvent(event), invoked |-> handleMouseEventResult(bs, event),
     prevented |-> FALSE, stopped |-> FALSE]

\* ------------------------------------------------------------------------
\* Inputs of the model
\* ------------------------------------------------------------------------

COMBO_shift_dot == STR_shift \o <<"+", ".">>

\* "Shift + .": the same combination in another letter case and spacing
COMBO_Shift_dot_spaced == KEY_Shift \o <<" ", "+", " ", ".">>

\* the combo arguments callers pass to bind and unbind when the shortcuts are
\* keyboard shortcuts
ComboArgs ==
    { JsString(<<>>), JsString(COMBO_shift_dot), JsString(COMBO_Shift_dot_spaced),
      JsNumber(5) }

\* the combo arguments callers pass when the shortcuts are wheel and mouse
\* button shortcuts
PointerComboArgs == { JsString(<<>>), JsString(STR_wheel_up), JsString(STR_middle_click) }

FnF == JsFunction("f", JsBoolean(FALSE), 0)

FnG == JsFunction("g", JsUndefined, 0)

\* the callback arguments callers pass to bind: one function, or also a
\* second function for the same combos
CallbackArgs == { FnF, NotAFunction }

TwoCallbackArgs == { FnF, FnG, NotAFunction }

\* the numbers callers pass to unbind: the failure sentinel and possible ids
IdArgs == { JsNumber(k) : k \in {-1} \cup (1..(MaxNow + RandRange - 1)) }

Event(type, shift, key, button, deltaY) ==
    [type |-> type, shiftKey |-> shift, ctrlKey |-> FALSE, altKey |-> FALSE,
     metaKey |-> FALSE, key |-> key, button |-> button, deltaY |-> deltaY]

NoEvent == Event("none", FALSE, <<>>, 0, 0)

KeyEvents ==
    { Event("keydown", TRUE, <<">">>, 0, 0), Event("keydown", TRUE, <<".">>, 0, 0),
      Event("keydown", FALSE, <<".">>, 0, 0), Event("keydown", TRUE, KEY_Shift, 0, 0),
      Event("keyup", FALSE, KEY_Shift, 0, 0), Event("keyup", TRUE, <<">">>, 0, 0) }

WheelEvents == { Event("wheel", FALSE, <<>>, 0, d) : d \in {-1, 0, 1} }

MouseDownEvents == { Event("mousedown", FALSE, <<>>, b, 0) : b \in {0, 1, 2} }

\* ------------------------------------------------------------------------
\* Record of the most recent call or event
\* ------------------------------------------------------------------------

\* op: the function called or the type of the event; arg, cb: the arguments
\* of a call; ev: the event; ret, threw: how the call ended; removed: how many
\* bindings the call took out of the registry; combo: the combo a listener
\* dispatched on; invoked: the positions in the registry of the bindings whose
\* callback ran, in call order; prevented, stopped: whether the listener
\* called preventDefault() and stopPropagation()
Outcome(op, arg, cb, ev, ret, threw, removed, combo, invoked, prevented, stopped) ==
    [op |-> op, arg |-> arg, cb |-> cb, ev |-> ev, ret |-> ret, threw |-> threw,
     removed |-> removed, combo |-> combo, invoked |-> invoked,
     prevented |-> prevented, stopped |-> stopped]

CallOutcome(op, arg, cb, ret, threw, removed) ==
    Outcome(op, arg, cb, NoEvent, ret, threw, removed, <<>>, <<>>, FALSE, FALSE)

EventOutcome(ev, combo, invoked, prevented, stopped) ==
    Outcome(ev.type, JsUndefined, NotAFunction, ev, JsUndefined, FALSE, 0,
            combo, invoked, prevented, stopped)

NotCleared == [active |-> FALSE, removed |-> {}]

\* ------------------------------------------------------------------------
\* Content script: settings
\* ------------------------------------------------------------------------

\* the keys of browser.storage.local the extension uses
SettingNames ==
    {"increaseSpeedKey", "decreaseSpeedKey", "resetSpeedKey",
     "speedIncrement", "lastSpeed", "persistSpeed", "enableShortcuts"}

\* DEFAULT_SETTINGS of the content script
DEFAULT_SETTINGS ==
    [speedIncrement |-> JsNumber(25 * Hundredth),
     increaseSpeedKey |-> JsString(STR_shift \o <<"+", ".">>),
     decreaseSpeedKey |-> JsString(STR_shift \o <<"+", ",">>),
     resetSpeedKey |-> JsString(STR_shift \o <<"+", "?">>),
     lastSpeed |-> JsNumber(One),
     persistSpeed |-> JsBoolean(TRUE)]

\* browser.storage.local.get(defaults): the stored value of each key of
\* defaults, the default where nothing is stored
storageGet(st, defaults) ==
    [k \in DOMAIN defaults |-> IF st[k] = JsUndefined THEN defaults[k] ELSE st[k]]

\* browser.storage.local.set(settings)
storageSet(st, settings) ==
    [k \in SettingNames |-> IF k \in DOMAIN settings THEN settings[k] ELSE st[k]]

\* href.includes('youtube.com/watch')
IsWatchPage(url) == url = "https://www.youtube.com/watch?v=1"

\* the addresses the tab visits
Urls == {"https://www.youtube.com/", "https://www.youtube.com/watch?v=1"}

\* the settings a recording session of the settings panel saves
PanelSaves ==
    { [increaseSpeedKey |-> JsString(STR_wheel_up)] }

\* the messages the content script receives
Messages ==
    { [action |-> a, settings |-> NoSettings] :
        a \in {"settingsUpdated", "applySettings", "settingsOpened", "settingsClosed"} }

\* a promise or a timer of the content script or of the settings panel that
\* is pending: id is the call of initializeShortcuts it started with, g the
\* video element it holds, n and v the numbers it holds
Job(kind, id, g, n, v) == [kind |-> kind, id |-> id, g |-> g, n |-> n, v |-> v]

\* maxAttempts of initWithRetry
maxAttempts == 3

\* ------------------------------------------------------------------------
\* Settings panel: recording a shortcut
\* ------------------------------------------------------------------------

\* the shortcut buttons of the panel; the id of a button is the name of the
\* setting it records
ShortcutButtons == {"increaseSpeedKey", "decreaseSpeedKey"}

\* textContent of a shortcut button: 'Press keys...', the formatted form of
\* a combo, or the default text of the button
ButtonText(kind, combo) == [kind |-> kind, combo |-> combo]

\* no call of handleKeyBinding yet: the buttons show their default text
NoRecording ==
    [sessions |-> <<>>,
     listening |-> {},
     text |-> [b \in ShortcutButtons |-> ButtonText("default", <<>>)],
     loads |-> {},
     input |-> [op |-> "none", target |-> "none", flip |-> FALSE]]

\* what one call of handleKeyBinding(button, settingName) has created: its
\* variables isListening and recordTimeout (<<>> for null), whether its
\* keydown, wheel and mousedown listeners and its click listener are
\* attached, and whether its two timers are pending; event and saved are
\* history, the event recorded last and the combo finishRecording has saved
NewSession(button) ==
    [button |-> button, isListening |-> TRUE, recordTimeout |-> <<>>,
     attached |-> TRUE, clickAttached |-> FALSE,
     clickTimer |-> TRUE, safetyTimer |-> TRUE,
     event |-> NoEvent, saved |-> <<>>]

STR_escape == <<"e", "s", "c", "a", "p", "e">>

\* finishRecording(combo) of the session s; the write of saveSettings is
\* taken to be carried out at once, and loadButtonText starts its read
finishRecording(p, s, combo) ==
    LET button == p.sessions[s].button
        closed == [p EXCEPT !.sessions[s].isListening = FALSE,
                            !.sessions[s].attached = FALSE,
                            !.sessions[s].clickAttached = FALSE,
                            !.sessions[s].recordTimeout = <<>>,
                            !.listening = @ \ {button}]
    IN IF combo = <<>>
       THEN [closed EXCEPT !.loads = @ \cup {button}]
       ELSE [closed EXCEPT !.sessions[s].saved = combo,
                           !.storage = storageSet(@, [k \in {button} |-> JsString(combo)]),
                           !.text[button] = ButtonText("combo", combo)]

\* keydownListener of the session s, with recordKeyPress
keydownListener(p, s, e) ==
    LET key == ToLowerCase(e.key)
        combo == getComboFromEvent(e)
    IN IF ~p.sessions[s].isListening THEN p
       ELSE IF key = STR_escape THEN finishRecording(p, s, <<>>)
       ELSE IF key = STR_shift \/ key = STR_control \/ key = STR_alt THEN p
       ELSE IF combo # <<>>
            THEN [p EXCEPT !.text[p.sessions[s].button] = ButtonText("combo", combo),
                           !.sessions[s].recordTimeout = combo,
                           !.sessions[s].event = e]
            ELSE p

\* wheelListener of the session s, with recordWheel
wheelListener(p, s, e) ==
    LET combo == getComboFromEvent(e)
    IN IF ~p.sessions[s].isListening THEN p
       ELSE IF combo # <<>>
            THEN finishRecording([p EXCEPT !.sessions[s].event = e], s, combo)
            ELSE p

\* recordMouseButton of the session s for a mousedown on target
recordMouseButton(p, s, e, target) ==
    LET combo == getComboFromEvent(e)
    IN IF e.button # 1 /\ target = p.sessions[s].button THEN p
       ELSE IF combo # <<>>
            THEN finishRecording([p EXCEPT !.sessions[s].event = e], s, combo)
            ELSE p

\* mousedownListener of the session s
recordingMousedownListener(p, s, e, target) ==
    IF ~p.sessions[s].isListening THEN p
    ELSE IF e.button = 1 THEN recordMouseButton(p, s, e, target)
    ELSE IF target # p.sessions[s].button THEN recordMouseButton(p, s, e, target)
    ELSE p

\* documentClickListener of the session s for a click on target, which is
\* no tooltip
documentClickListener(p, s, target) ==
    IF p.sessions[s].isListening /\ target # p.sessions[s].button
    THEN finishRecording(p, s, <<>>)
    ELSE p

\* an event is dispatched to the capture listeners the sessions s, s + 1, ...
\* have attached to the document, in the order they were attached in
RECURSIVE dispatchToSessions(_, _, _, _)
dispatchToSessions(p, s, e, target) ==
    IF s > Len(p.sessions) THEN p
    ELSE LET sess == p.sessions[s]
             next == IF e.type = "click"
                     THEN IF sess.clickAttached THEN documentClickListener(p, s, target) ELSE p
                     ELSE IF ~sess.attached THEN p
                     ELSE IF e.type = "keydown" THEN keydownListener(p, s, e)
                     ELSE IF e.type = "wheel" THEN wheelListener(p, s, e)
                     ELSE recordingMousedownListener(p, s, e, target)
         IN dispatchToSessions(next, s + 1, e, target)

\* handleKeyBinding(button, settingName) up to its two setTimeout calls
handleKeyBinding(p, button) ==
    [p EXCEPT !.listening = {button},
              !.text[button] = ButtonText("pressKeys", <<>>),
              !.sessions = Append(@, NewSession(button))]

\* ------------------------------------------------------------------------
\* Initial state: the keyHandler script has run, nothing is bound
\* ------------------------------------------------------------------------

InitKeyHandler ==
    /\ bindings = <<>>
    /\ modifierState = [shift |-> FALSE, ctrl |-> FALSE, alt |-> FALSE, meta |-> FALSE]
    /\ now = 1
    /\ last = CallOutcome("load", JsUndefined, NotAFunction, JsUndefined, FALSE, 0)
    /\ cleared = NotCleared

\* the content script has set nothing up
InitPage ==
    /\ recording = NoRecording
    /\ cache = NoSettings
    /\ closures = [e \in 1..MaxEpoch |-> [increment |-> 0, g |-> 0]]
    /\ anims = <<>>
    /\ presses = 0

\* the keyHandler on a page that is not a watch page: the content script's
\* init() returned at once and nothing is stored
Init ==
    /\ InitKeyHandler
    /\ InitPage
    /\ storage = [k \in SettingNames |-> JsUndefined]
    /\ video = FALSE
    /\ videos = <<>>
    /\ href = "https://www.youtube.com/"
    /\ lastUrl = href
    /\ timers = 0
    /\ tasks = {}
    /\ jobs = {}
    /\ epoch = 0

\* ------------------------------------------------------------------------
\* keyHandler: actions
\* ------------------------------------------------------------------------

\* the page as the callbacks, timers and animation frames find it
Page == [videos |-> videos, anims |-> anims, storage |-> storage]

PageBecomes(pg) ==
    /\ videos' = pg.videos
    /\ anims' = pg.anims
    /\ storage' = pg.storage

\* the callbacks a listener invokes run
callbacksRun(invoked) ==
    LET n == Len(ShortcutsInvoked(bindings, invoked)) IN
    /\ presses + n <= MaxPresses
    /\ presses' = presses + n
    /\ PageBecomes(runCallbacks(Page, cache, closures, bindings, invoked))

\* a call of keyHandler.bind(combo, callback); r is the random draw
bind(combo, callback, r) ==
    /\ Len(bindings) < MaxBindings
    /\ LET res == bindResult(bindings, now, r, combo, callback) IN
       /\ bindings' = res.bindings
       /\ last' = CallOutcome("bind", combo, callback, res.ret, res.threw, 0)
       /\ cleared' = IF res.bindings # bindings THEN NotCleared ELSE cleared
    /\ UNCHANGED <<modifierState, now>>
    /\ UNCHANGED contentVars

\* a call of keyHandler.unbind(idOrCombo)
unbind(idOrCombo) ==
    /\ LET res == unbindResult(bindings, idOrCombo) IN
       /\ bindings' = res.bindings
       /\ last' = CallOutcome("unbind", idOrCombo, NotAFunction, res.ret, FALSE,
                               Len(bindings) - Len(res.bindings))
    /\ UNCHANGED <<modifierState, now, cleared>>
    /\ UNCHANGED contentVars

\* a call of keyHandler.unbindAll()
unbindAll ==
    /\ bindings' = unbindAllResult(bindings)
    /\ last' = CallOutcome("unbindAll", JsUndefined, NotAFunction, JsUndefined, FALSE,
                            Len(bindings))
    /\ cleared' = [active |-> TRUE,
                    removed |-> { bindings[i].combo : i \in 1..Len(bindings) }]
    /\ UNCHANGED <<modifierState, now>>
    /\ UNCHANGED contentVars

\* a keydown or keyup event reaches the document: handleKeyEvent(event)
handleKeyEvent(event) ==
    /\ LET res == handleKeyEventResult(bindings, modifierState, event) IN
       /\ modifierState' = res.modifierState
       /\ last' = EventOutcome(event, res.combo, res.invoked, res.prevented, res.stopped)
       /\ callbacksRun(res.invoked)
    /\ UNCHANGED <<bindings, now, cleared>>
    /\ UNCHANGED scriptVars

\* a wheel event reaches the document: handleMouseEvent(event)
handleMouseEvent(event) ==
    /\ LET res == wheelListenerResult(bindings, event) IN
       /\ last' = EventOutcome(event, res.combo, res.invoked, res.prevented, res.stopped)
       /\ callbacksRun(res.invoked)
    /\ UNCHANGED <<bindings, modifierState, now, cleared>>
    /\ UNCHANGED scriptVars

\* a mousedown event reaches the document: the anonymous capture listener
mousedownListener(event) ==
    /\ LET res == mousedownListenerResult(bindings, event) IN
       /\ last' = EventOutcome(event, res.combo, res.invoked, res.prevented, res.stopped)
       /\ callbacksRun(res.invoked)
    /\ UNCHANGED <<bindings, modifierState, now, cleared>>
    /\ UNCHANGED scriptVars

\* a millisecond passes
Tick ==
    /\ now < MaxNow
    /\ now' = now + 1
    /\ UNCHANGED <<bindings, modifierState, last, cleared>>
    /\ UNCHANGED contentVars

\* ------------------------------------------------------------------------
\* Content script: shortcut initialisation
\* ------------------------------------------------------------------------

\* the three closures initializeShortcuts binds; each returns false, and the
\* epoch tells which call of initializeShortcuts created it
ShortcutCallback(name, e) == JsFunction(name, JsBoolean(FALSE), e)

\* one keyHandler.bind call of the then-callback: acc is the registry and
\* whether an earlier call threw, which skips the remaining statements
bindNext(acc, t, r, combo, callback) ==
    IF acc.threw THEN acc
    ELSE LET res == bindResult(acc.bindings, t, r, combo, callback) IN
         [bindings |-> res.bindings, threw |-> res.threw]

\* the then-callback without its call of keyHandler.unbindAll()
initializeShortcutsThen_KeepsBindings(bs, hasVideo, settings, e, t, r1, r2, r3) ==
    IF ~hasVideo THEN [bindings |-> bs, threw |-> FALSE]
    ELSE LET b0 == [bindings |-> bs, threw |-> FALSE]
             b1 == bindNext(b0, t, r1, settings.increaseSpeedKey, ShortcutCallback("increase", e))
             b2 == bindNext(b1, t, r2, settings.decreaseSpeedKey, ShortcutCallback("decrease", e))
             b3 == bindNext(b2, t, r3, settings.resetSpeedKey, ShortcutCallback("reset", e))
         IN b3

\* the then-callback of initializeShortcuts for the call e, run with the
\* settings read, at clock value t with the random draws r1, r2, r3
initializeShortcutsThen(bs, hasVideo, settings, e, t, r1, r2, r3) ==
    IF ~hasVideo THEN [bindings |-> bs, threw |-> FALSE]
    ELSE LET b0 == [bindings |-> unbindAllResult(bs), threw |-> FALSE]
             b1 == bindNext(b0, t, r1, settings.increaseSpeedKey, ShortcutCallback("increase", e))
             b2 == bindNext(b1, t, r2, settings.decreaseSpeedKey, ShortcutCallback("decrease", e))
             b3 == bindNext(b2, t, r3, settings.resetSpeedKey, ShortcutCallback("reset", e))
         IN b3

\* what the closures of the then-callback capture: the video found and
\* settings.speedIncrement || DEFAULT_SETTINGS.speedIncrement
closureOf(settings, g) ==
    [increment |-> IF Falsy(settings.speedIncrement)
                   THEN DEFAULT_SETTINGS.speedIncrement.n
                   ELSE settings.speedIncrement.n,
     g |-> g]

\* initializeShortcuts(): starts the storage read of a new call
initializeShortcutsCall ==
    /\ epoch' = epoch + 1
    /\ tasks' = tasks \cup {epoch + 1}

\* attemptInit that sets the retry timer whatever the count
attemptInit_NoLimit(id, attempts, hasVideo, vs) ==
    IF ~hasVideo
    THEN { Job("retryTimer", id, 0, attempts, 0) }
    ELSE IF vs[Len(vs)].enabled THEN {}
    ELSE { Job("limitRead", id, Len(vs), attempts, 0) }

\* attemptInit of the run id of initWithRetry, which has counted attempts
\* calls: removeSpeedLimit() answers false at once without a video and true
\* at once for a video that has its override, and reads the storage
\* otherwise; a false answer sets the retry timer while attempts remain
attemptInit(id, attempts, hasVideo, vs) ==
    IF ~hasVideo
    THEN IF attempts < maxAttempts THEN { Job("retryTimer", id, 0, attempts, 0) } ELSE {}
    ELSE IF vs[Len(vs)].enabled THEN {}
    ELSE { Job("limitRead", id, Len(vs), attempts, 0) }

\* init(): on a watch page it initialises the shortcuts, starts the read of
\* loadAndApplySettings and the first attempt of initWithRetry
initCall ==
    IF IsWatchPage(href)
    THEN /\ initializeShortcutsCall
         /\ jobs' = jobs \cup { Job("settingsRead", epoch + 1, 0, 0, 0) }
                         \cup attemptInit(epoch + 1, 1, video, videos)
    ELSE UNCHANGED <<tasks, epoch, jobs>>

\* the timer set by the URL observer fires: init()
initTimer ==
    /\ timers > 0
    /\ epoch < MaxEpoch
    /\ timers' = timers - 1
    /\ initCall
    /\ last' = CallOutcome("init", JsUndefined, NotAFunction, JsUndefined, FALSE, 0)
    /\ UNCHANGED <<storage, video, href, lastUrl>>
    /\ UNCHANGED <<videos, cache, closures, anims, presses>>
    /\ UNCHANGED keyHandlerVars

\* the interval callback of setupUrlObserver
urlObserver ==
    /\ IF href # lastUrl
       THEN /\ lastUrl' = href
            /\ IF IsWatchPage(href)
               THEN /\ timers < MaxTimers
                    /\ timers' = timers + 1
               ELSE UNCHANGED timers
       ELSE UNCHANGED <<lastUrl, timers>>
    /\ last' = CallOutcome("urlObserver", JsUndefined, NotAFunction, JsUndefined, FALSE, 0)
    /\ UNCHANGED <<storage, video, href, tasks, epoch>>
    /\ UNCHANGED pageVars
    /\ UNCHANGED keyHandlerVars

\* handleSettingsUpdate that renews the cache and the shortcuts and leaves
\* the speed of the video alone
handleSettingsUpdate_KeepsSpeed(message) ==
    /\ initializeShortcutsCall
    /\ IF message.settings.defined
       THEN /\ cache' = message.settings
            /\ UNCHANGED jobs
       ELSE /\ jobs' = jobs \cup { Job("cacheRead", epoch + 1, 0, 0, 0) }
            /\ UNCHANGED cache
    /\ UNCHANGED <<videos, storage>>

\* handleSettingsUpdate(message): the settings of the message are cached, or
\* read from the storage when it carries none; the shortcuts are initialised
\* again; a video slower than the new increment is set to it
handleSettingsUpdate(message) ==
    /\ initializeShortcutsCall
    /\ IF message.settings.defined
       THEN /\ cache' = message.settings
            /\ UNCHANGED jobs
       ELSE /\ jobs' = jobs \cup { Job("cacheRead", epoch + 1, 0, 0, 0) }
            /\ UNCHANGED cache
    /\ LET m == message.settings.speedIncrement
           g == Len(videos)
       IN IF /\ video
             /\ message.settings.defined
             /\ ~Falsy(m)
             /\ RoundToHundredths(playbackRateGet(videos[g])) < m.n
          THEN /\ videos' = [videos EXCEPT ![g] = playbackRateSet(@, message.settings, m.n)]
               /\ storage' = storageSet(storage, [lastSpeed |-> m])
          ELSE UNCHANGED <<videos, storage>>

\* handleMessage(message)
handleMessage(message) ==
    /\ epoch < MaxEpoch
    /\ IF message.action \in {"settingsUpdated", "applySettings"}
       THEN handleSettingsUpdate(message)
       ELSE /\ IF message.action = "settingsClosed"
               THEN initializeShortcutsCall
               ELSE UNCHANGED <<tasks, epoch>>
            /\ UNCHANGED <<storage, videos, cache, jobs>>
    /\ last' = CallOutcome(message.action, message.settings.speedIncrement, NotAFunction,
                            JsBoolean(FALSE), FALSE, 0)
    /\ UNCHANGED <<video, href, lastUrl, timers, closures, anims, presses>>
    /\ UNCHANGED keyHandlerVars

\* the storage read of the call e of initializeShortcuts resolves and its
\* then-callback runs
shortcutsResolved(e, r1, r2, r3) ==
    /\ e \in tasks
    /\ tasks' = tasks \ {e}
    /\ LET settings == storageGet(storage, DEFAULT_SETTINGS)
           res == initializeShortcutsThen(bindings, video, settings, e, now, r1, r2, r3)
       IN /\ bindings' = res.bindings
          /\ closures' = IF video
                          THEN [closures EXCEPT ![e] = closureOf(settings, Len(videos))]
                          ELSE closures
          /\ cleared' = IF ~video THEN cleared
                         ELSE IF res.bindings # <<>> THEN NotCleared
                         ELSE [active |-> TRUE,
                               removed |-> { bindings[i].combo : i \in 1..Len(bindings) }]
          /\ last' = CallOutcome("shortcutsResolved", JsNumber(e), NotAFunction,
                                  JsUndefined, res.threw,
                                  IF video THEN Len(bindings) ELSE 0)
    /\ UNCHANGED <<modifierState, now>>
    /\ UNCHANGED <<storage, video, href, lastUrl, timers, epoch>>
    /\ UNCHANGED <<videos, cache, anims, jobs, presses, recording>>

\* the storage read of the call e of initializeShortcuts is rejected and its
\* catch-callback logs the error
shortcutsRejected(e) ==
    /\ e \in tasks
    /\ tasks' = tasks \ {e}
    /\ last' = CallOutcome("shortcutsRejected", JsNumber(e), NotAFunction,
                            JsUndefined, FALSE, 0)
    /\ UNCHANGED <<storage, video, href, lastUrl, timers, epoch>>
    /\ UNCHANGED pageVars
    /\ UNCHANGED keyHandlerVars

\* ------------------------------------------------------------------------
\* Content script: stored speed and speed limit
\* ------------------------------------------------------------------------

\* the pending promise or timer of the given kind that the call id started
Pending(kind, id) == { j \in jobs : j.kind = kind /\ j.id = id }

\* loadAndApplySettings: its storage read resolves; the settings are cached
\* and a timer of 500 ms is set that applies lastSpeed, or 1.0 when
\* persistSpeed is off, to the video found
settingsLoaded(id) ==
    /\ Pending("settingsRead", id) # {}
    /\ LET result == storageGet(storage, DEFAULT_SETTINGS)
           timer == IF ~Falsy(result.lastSpeed) /\ ~Falsy(result.persistSpeed)
                    THEN IF video
                         THEN { Job("applyTimer", id, Len(videos), 0, result.lastSpeed.n) }
                         ELSE {}
                    ELSE IF Falsy(result.persistSpeed) /\ video
                         THEN { Job("applyTimer", id, Len(videos), 0, One) }
                         ELSE {}
       IN /\ cache' = Settings(result.speedIncrement, JsUndefined)
          /\ jobs' = (jobs \ Pending("settingsRead", id)) \cup timer
    /\ last' = CallOutcome("settingsLoaded", JsNumber(id), NotAFunction, JsUndefined, FALSE, 0)
    /\ UNCHANGED <<storage, video, href, lastUrl, timers, tasks, epoch>>
    /\ UNCHANGED <<videos, closures, anims, presses>>
    /\ UNCHANGED keyHandlerVars

\* the timer of loadAndApplySettings fires: video.playbackRate is assigned
speedApplied(id) ==
    /\ \E j \in Pending("applyTimer", id) :
          /\ videos' = [videos EXCEPT ![j.g] = playbackRateSet(@, cache, j.v)]
          /\ jobs' = jobs \ {j}
    /\ last' = CallOutcome("speedApplied", JsNumber(id), NotAFunction, JsUndefined, FALSE, 0)
    /\ UNCHANGED <<storage, video, href, lastUrl, timers, tasks, epoch>>
    /\ UNCHANGED <<cache, closures, anims, presses>>
    /\ UNCHANGED keyHandlerVars

\* handleSettingsUpdate: its storage read resolves and the settings are cached
cacheLoaded(id) ==
    /\ Pending("cacheRead", id) # {}
    /\ cache' = Settings(storageGet(storage, DEFAULT_SETTINGS).speedIncrement, JsUndefined)
    /\ jobs' = jobs \ Pending("cacheRead", id)
    /\ last' = CallOutcome("cacheLoaded", JsNumber(id), NotAFunction, JsUndefined, FALSE, 0)
    /\ UNCHANGED <<storage, video, href, lastUrl, timers, tasks, epoch>>
    /\ UNCHANGED <<videos, closures, anims, presses>>
    /\ UNCHANGED keyHandlerVars

\* removeSpeedLimit: its storage read resolves, the getter and the setter are
\* installed on the video it holds and it answers true
limitRemoved(id) ==
    /\ \E j \in Pending("limitRead", id) :
          LET result == storageGet(storage, [speedIncrement |-> JsNumber(5 * Hundredth)])
              minSpeed == IF Falsy(result.speedIncrement) THEN 5 * Hundredth
                          ELSE result.speedIncrement.n
              rate == playbackRateGet(videos[j.g])
          IN /\ videos' = [videos EXCEPT ![j.g] =
                               [rate |-> IF rate = 0 THEN One ELSE rate,
                                enabled |-> TRUE, minSpeed |-> minSpeed]]
             /\ jobs' = jobs \ {j}
    /\ last' = CallOutcome("limitRemoved", JsNumber(id), NotAFunction, JsBoolean(TRUE), FALSE, 0)
    /\ UNCHANGED <<storage, video, href, lastUrl, timers, tasks, epoch>>
    /\ UNCHANGED <<cache, closures, anims, presses>>
    /\ UNCHANGED keyHandlerVars

\* removeSpeedLimit: its storage read is rejected and it answers false;
\* attemptInit sets the retry timer while attempts remain
limitFailed(id) ==
    /\ \E j \in Pending("limitRead", id) :
          jobs' = (jobs \ {j}) \cup
                  (IF j.n < maxAttempts THEN { Job("retryTimer", id, 0, j.n, 0) } ELSE {})
    /\ last' = CallOutcome("limitFailed", JsNumber(id), NotAFunction, JsBoolean(FALSE), FALSE, 0)
    /\ UNCHANGED <<storage, video, href, lastUrl, timers, tasks, epoch>>
    /\ UNCHANGED <<videos, cache, closures, anims, presses>>
    /\ UNCHANGED keyHandlerVars

\* the retry timer of initWithRetry fires: attemptInit counts an attempt and
\* calls removeSpeedLimit
retryTimer(id) ==
    /\ \E j \in Pending("retryTimer", id) :
          jobs' = (jobs \ {j}) \cup attemptInit(id, j.n + 1, video, videos)
    /\ last' = CallOutcome("retryTimer", JsNumber(id), NotAFunction, JsUndefined, FALSE, 0)
    /\ UNCHANGED <<storage, video, href, lastUrl, timers, tasks, epoch>>
    /\ UNCHANGED <<videos, cache, closures, anims, presses>>
    /\ UNCHANGED keyHandlerVars

\* an animation frame: the callbacks requested by applySpeedWithTransition
\* and by animateSpeed run
animationFrame ==
    /\ anims # <<>>
    /\ PageBecomes(animationFrameResult([Page EXCEPT !.anims = <<>>], cache, anims))
    /\ UNCHANGED <<video, href, lastUrl, timers, tasks, epoch, last>>
    /\ UNCHANGED <<cache, closures, jobs, presses>>
    /\ UNCHANGED keyHandlerVars

\* ------------------------------------------------------------------------
\* Content script: environment
\* ------------------------------------------------------------------------

\* the settings panel stores settings: browser.storage.local.set(settings)
saveSettings(settings) ==
    /\ storage' = storageSet(storage, settings)
    /\ UNCHANGED <<video, href, lastUrl, timers, tasks, epoch, last>>
    /\ UNCHANGED pageVars
    /\ UNCHANGED keyHandlerVars

\* the page navigates without reloading the document
navigate(url) ==
    /\ url # href
    /\ href' = url
    /\ UNCHANGED <<storage, video, lastUrl, timers, tasks, epoch, last>>
    /\ UNCHANGED pageVars
    /\ UNCHANGED keyHandlerVars

\* the page removes its video element, or adds a new one
videoChange ==
    /\ video' = ~video
    /\ IF video
       THEN UNCHANGED videos
       ELSE /\ Len(videos) < MaxVideos
            /\ videos' = Append(videos, NewVideo)
    /\ UNCHANGED <<storage, href, lastUrl, timers, tasks, epoch, last>>
    /\ UNCHANGED <<cache, closures, anims, jobs, presses>>
    /\ UNCHANGED keyHandlerVars

\* the page's player assigns video.playbackRate
playerSetsRate(speed) ==
    /\ video
    /\ videos' = [videos EXCEPT ![Len(videos)] = playbackRateSet(@, cache, speed)]
    /\ last' = CallOutcome("playerSetsRate", JsNumber(speed), NotAFunction, JsUndefined, FALSE, 0)
    /\ UNCHANGED <<storage, video, href, lastUrl, timers, tasks, epoch>>
    /\ UNCHANGED <<cache, closures, anims, jobs, presses>>
    /\ UNCHANGED keyHandlerVars

\* every operation and event, with the arguments of bind and unbind drawn
\* from combos and callbacks
NextWith(combos, callbacks) ==
    \/ \E combo \in combos, callback \in callbacks, r \in 0..(RandRange - 1) :
          bind(combo, callback, r)
    \/ \E idOrCombo \in combos \cup IdArgs : unbind(idOrCombo)
    \/ unbindAll
    \/ \E event \in KeyEvents : handleKeyEvent(event)
    \/ \E event \in WheelEvents : handleMouseEvent(event)
    \/ \E event \in MouseDownEvents : mousedownListener(event)
    \/ Tick

Next == NextWith(ComboArgs, CallbackArgs)

Spec == Init /\ [][Next]_vars

NextPointer == NextWith(PointerComboArgs, TwoCallbackArgs)

SpecPointer == Init /\ [][NextPointer]_vars

\* ------------------------------------------------------------------------
\* The content script on a tab
\* ------------------------------------------------------------------------

\* the content script has run its startup sequence: init(), then
\* setupUrlObserver(), then the message listener is added
InitContent ==
    /\ InitKeyHandler
    /\ InitPage
    /\ storage = [k \in SettingNames |-> JsUndefined]
    /\ video \in BOOLEAN
    /\ videos = IF video THEN <<NewVideo>> ELSE <<>>
    /\ href \in Urls
    /\ lastUrl = href
    /\ timers = 0
    /\ tasks = IF IsWatchPage(href) THEN {1} ELSE {}
    /\ jobs = IF IsWatchPage(href)
              THEN { Job("settingsRead", 1, 0, 0, 0) } \cup attemptInit(1, 1, video, videos)
              ELSE {}
    /\ epoch = IF IsWatchPage(href) THEN 1 ELSE 0

ContentKeyEvents == { Event("keydown", TRUE, <<">">>, 0, 0) }

ContentWheelEvents == { Event("wheel", FALSE, <<>>, 0, -1) }

ContentMouseDownEvents == { Event("mousedown", FALSE, <<>>, 1, 0) }

\* the shortcuts of the content script: the steps of init that install and
\* replace them, and the events that reach them
NextContent ==
    \/ initTimer
    \/ urlObserver
    \/ \E message \in Messages : handleMessage(message)
    \/ \E e \in 1..MaxEpoch : shortcutsResolved(e, 0, 0, 0)
    \/ \E e \in 1..MaxEpoch : shortcutsRejected(e)
    \/ \E settings \in PanelSaves : saveSettings(settings)
    \/ \E url \in Urls : navigate(url)
    \/ videoChange
    \/ \E event \in ContentKeyEvents : handleKeyEvent(event)
    \/ \E event \in ContentWheelEvents : handleMouseEvent(event)
    \/ \E event \in ContentMouseDownEvents : mousedownListener(event)

SpecContent == InitContent /\ [][NextContent]_vars

\* ------------------------------------------------------------------------
\* The speed shortcuts on a watch page
\* ------------------------------------------------------------------------

\* sliderToIncrement(value) of the settings panel
sliderToIncrement(value) == RoundToHundredths(value * 5 * Hundredth)

\* positions of the speed increment slider: its ends and its middle
SliderValues == {1, 10, 20}

\* values of lastSpeed left in the storage by earlier visits
StoredSpeeds == {10 * Hundredth, One, 10 * One}

\* init() has completed on a watch page with a video, for a storage that
\* holds a speedIncrement and a lastSpeed: the shortcuts are bound, the
\* settings cached, the override installed and lastSpeed applied
InitSpeedWith(values, lastSpeeds) ==
    /\ \E value \in values, lastSpeed \in lastSpeeds :
          storage = storageSet([k \in SettingNames |-> JsUndefined],
                               [speedIncrement |-> JsNumber(sliderToIncrement(value)),
                                lastSpeed |-> JsNumber(lastSpeed)])
    /\ LET settings == storageGet(storage, DEFAULT_SETTINGS) IN
       /\ bindings = initializeShortcutsThen(<<>>, TRUE, settings, 1, 1, 0, 0, 0).bindings
       /\ closures = [e \in 1..MaxEpoch |->
                         IF e = 1 THEN closureOf(settings, 1) ELSE [increment |-> 0, g |-> 0]]
       /\ cache = Settings(settings.speedIncrement, JsUndefined)
       /\ videos = << playbackRateSet([rate |-> One, enabled |-> TRUE,
                                       minSpeed |-> settings.speedIncrement.n],
                                      cache, settings.lastSpeed.n) >>
    /\ modifierState = [shift |-> FALSE, ctrl |-> FALSE, alt |-> FALSE, meta |-> FALSE]
    /\ now = 1
    /\ last = CallOutcome("speedApplied", JsNumber(1), NotAFunction, JsUndefined, FALSE, 0)
    /\ cleared = NotCleared
    /\ video = TRUE
    /\ href = "https://www.youtube.com/watch?v=1"
    /\ lastUrl = href
    /\ timers = 0
    /\ tasks = {}
    /\ jobs = {}
    /\ epoch = 1
    /\ anims = <<>>
    /\ presses = 0
    /\ recording = NoRecording

InitSpeed == InitSpeedWith(SliderValues, StoredSpeeds)

\* the default shortcuts: Shift + > , Shift + < and Shift + ?
SpeedKeyEvents == { Event("keydown", TRUE, <<k>>, 0, 0) : k \in {">", "<", "?"} }

\* what the settings panel stores when the slider moves or the shortcuts are
\* toggled off
SpeedSaves ==
    { [speedIncrement |-> JsNumber(sliderToIncrement(10))],
      [enableShortcuts |-> JsBoolean(FALSE)] }

\* the message notifyTabsAboutSettingsChange sends after a save: the stored
\* settings
PanelMessage ==
    [action |-> "settingsUpdated",
     settings |-> Settings(storage.speedIncrement, storage.enableShortcuts)]

NextSpeed ==
    \/ \E event \in SpeedKeyEvents : handleKeyEvent(event)
    \/ animationFrame
    \/ \E settings \in SpeedSaves : saveSettings(settings)
    \/ handleMessage(PanelMessage)
    \/ \E e \in 1..MaxEpoch : shortcutsResolved(e, 0, 0, 0)

SpecSpeed == InitSpeed /\ [][NextSpeed]_vars

\* ------------------------------------------------------------------------
\* The increase shortcut pressed repeatedly
\* ------------------------------------------------------------------------

\* the video has settled at 1.0x, for every position of the slider; then
\* Shift + > is pressed at any moments between the animation frames
NextIncrease ==
    \/ handleKeyEvent(Event("keydown", TRUE, <<">">>, 0, 0))
    \/ animationFrame

SpecIncrease == InitSpeedWith(1..20, {One}) /\ [][NextIncrease]_vars

\* ------------------------------------------------------------------------
\* Initialisation on a watch page
\* ------------------------------------------------------------------------

\* the persistSpeed toggle as loadSettings of the settings panel shows it
persistSpeedToggle(st) ==
    IF st.persistSpeed = JsUndefined THEN FALSE ELSE st.persistSpeed = JsBoolean(TRUE)

\* what earlier visits may have left in the storage
StoredSettings ==
    { [speedIncrement |-> i, lastSpeed |-> l, persistSpeed |-> p] :
        i \in {JsUndefined, JsNumber(50 * Hundredth)},
        l \in {JsUndefined, JsNumber(150 * Hundredth)},
        p \in {JsUndefined, JsBoolean(TRUE)} }

\* the content script has run its startup sequence on a watch page, with or
\* without a video in the document
InitLoad ==
    /\ InitKeyHandler
    /\ InitPage
    /\ \E settings \in StoredSettings :
          storage = storageSet([k \in SettingNames |-> JsUndefined], settings)
    /\ video \in BOOLEAN
    /\ videos = IF video THEN <<NewVideo>> ELSE <<>>
    /\ href = "https://www.youtube.com/watch?v=1"
    /\ lastUrl = href
    /\ timers = 0
    /\ tasks = {1}
    /\ jobs = { Job("settingsRead", 1, 0, 0, 0) } \cup attemptInit(1, 1, video, videos)
    /\ epoch = 1

\* loadAndApplySettings in the runs of init, on the first page and after the
\* changes of address the URL observer detects
NextLoad ==
    \/ \E id \in 1..MaxEpoch : settingsLoaded(id)
    \/ \E id \in 1..MaxEpoch : speedApplied(id)
    \/ \E url \in Urls : navigate(url)
    \/ urlObserver
    \/ initTimer
    \/ videoChange

SpecLoad == InitLoad /\ [][NextLoad]_vars

\* ------------------------------------------------------------------------
\* The override of playbackRate
\* ------------------------------------------------------------------------

\* initWithRetry in the runs of init, while the page adds and removes its
\* video
NextRetry ==
    \/ \E id \in 1..MaxEpoch : limitRemoved(id)
    \/ \E id \in 1..MaxEpoch : limitFailed(id)
    \/ \E id \in 1..MaxEpoch : retryTimer(id)
    \/ \E url \in Urls : navigate(url)
    \/ urlObserver
    \/ initTimer
    \/ videoChange

SpecRetry == InitLoad /\ [][NextRetry]_vars

\* speeds the page's player assigns: none, one of three decimals, one above
\* every limit
PlayerSpeeds == {0, One + 51, 17 * One}

\* the override once installed: the assignments of the page's player and of
\* loadAndApplySettings, under the settings the content script caches
NextLimit ==
    \/ \E id \in 1..MaxEpoch : limitRemoved(id)
    \/ \E id \in 1..MaxEpoch : settingsLoaded(id)
    \/ \E id \in 1..MaxEpoch : speedApplied(id)
    \/ \E speed \in PlayerSpeeds : playerSetsRate(speed)
    \/ \E settings \in SpeedSaves : saveSettings(settings)
    \/ handleMessage(PanelMessage)

SpecLimit == InitLoad /\ [][NextLimit]_vars

\* ------------------------------------------------------------------------
\* getComboFromEvent as a function of the public API
\* ------------------------------------------------------------------------

\* the settings of the four modifier flags of an event
ModifierFlags == [shiftKey : BOOLEAN, ctrlKey : BOOLEAN, altKey : BOOLEAN, metaKey : BOOLEAN]

EventWith(type, flags, key, button, deltaY) ==
    [type |-> type, shiftKey |-> flags.shiftKey, ctrlKey |-> flags.ctrlKey,
     altKey |-> flags.altKey, metaKey |-> flags.metaKey,
     key |-> key, button |-> button, deltaY |-> deltaY]

\* values of KeyboardEvent.key: characters with and without an alias, a
\* capital letter, the "+" character and the four modifier keys
ComboKeys ==
    { <<">">>, <<".">>, <<"<">>, <<",">>, <<" ">>, <<"A">>, <<"+">>,
      KEY_Shift, KEY_Control, KEY_Alt, KEY_Meta }

\* the events getComboFromEvent is called with
ComboEvents ==
    { EventWith("keydown", f, k, 0, 0) : f \in ModifierFlags, k \in ComboKeys } \cup
    { EventWith("wheel", f, <<>>, 0, d) : f \in ModifierFlags, d \in {-1, 0, 1} } \cup
    { EventWith("mousedown", f, <<>>, b, 0) : f \in ModifierFlags, b \in {0, 1, 2} }

\* the Shift key goes down and up
ShiftKeyEvents ==
    { Event("keydown", TRUE, KEY_Shift, 0, 0), Event("keyup", FALSE, KEY_Shift, 0, 0) }

\* getComboFromEvent taking the modifiers from the cached modifier state
getComboFromEventCall_FromModifierState(event) ==
    /\ last' = Outcome("getComboFromEvent", JsUndefined, NotAFunction, event,
                        JsString(getComboFromEvent(
                            [event EXCEPT !.shiftKey = modifierState.shift,
                                          !.ctrlKey = modifierState.ctrl,
                                          !.altKey = modifierState.alt,
                                          !.metaKey = modifierState.meta])),
                        FALSE, 0, <<>>, <<>>, FALSE, FALSE)
    /\ UNCHANGED keyHandlerVars
    /\ UNCHANGED contentVars

\* a call of keyHandler.getComboFromEvent(event)
getComboFromEventCall(event) ==
    /\ last' = Outcome("getComboFromEvent", JsUndefined, NotAFunction, event,
                        JsString(getComboFromEvent(event)), FALSE, 0,
                        <<>>, <<>>, FALSE, FALSE)
    /\ UNCHANGED keyHandlerVars
    /\ UNCHANGED contentVars

NextCombo ==
    \/ \E event \in ComboEvents : getComboFromEventCall(event)
    \/ \E event \in ShiftKeyEvents : handleKeyEvent(event)

SpecCombo == Init /\ [][NextCombo]_vars

\* ------------------------------------------------------------------------
\* The modifier keys pressed on their own
\* ------------------------------------------------------------------------

ModifierKeyNames == { KEY_Shift, KEY_Control, KEY_Alt, KEY_Meta }

\* a modifier key goes down, with every setting of the flags, or up
ModifierKeyEvents ==
    { EventWith("keydown", f, k, 0, 0) : f \in ModifierFlags, k \in ModifierKeyNames } \cup
    { Event("keyup", FALSE, k, 0, 0) : k \in ModifierKeyNames }

\* the combo a caller binds to have the Shift key alone as a shortcut
ModifierComboArgs == { JsString(STR_shift) }

\* binds of that combo (the random draw is 0), unbindAll, and the modifier
\* key events
NextModifierKeys ==
    \/ \E combo \in ModifierComboArgs : bind(combo, FnF, 0)
    \/ unbindAll
    \/ \E event \in ModifierKeyEvents : handleKeyEvent(event)

SpecModifierKeys == Init /\ [][NextModifierKeys]_vars

\* ------------------------------------------------------------------------
\* Dispatch over keyboard, wheel and mouse button shortcuts together
\* ------------------------------------------------------------------------

\* a callback that returns the number 0: falsy, but not the boolean false
FnZero == JsFunction("z", JsNumber(0), 0)

DispatchComboArgs ==
    { JsString(COMBO_shift_dot), JsString(STR_wheel_up),
      JsString(STR_mouse \o <<"1">>), JsString(STR_mouse \o <<"3">>) }

DispatchCallbackArgs == { FnF, FnZero }

DispatchKeyEvents ==
    { Event("keydown", TRUE, <<">">>, 0, 0), Event("keydown", FALSE, <<".">>, 0, 0),
      Event("keyup", TRUE, <<">">>, 0, 0) }

DispatchWheelEvents == { Event("wheel", FALSE, <<>>, 0, d) : d \in {-1, 1} }

\* binds (the random draw is 0), unbinds by combo, unbindAll and the events
\* of the three kinds
NextDispatch ==
    \/ \E combo \in DispatchComboArgs, callback \in DispatchCallbackArgs :
          bind(combo, callback, 0)
    \/ \E combo \in DispatchComboArgs : unbind(combo)
    \/ unbindAll
    \/ \E event \in DispatchKeyEvents : handleKeyEvent(event)
    \/ \E event \in DispatchWheelEvents : handleMouseEvent(event)
    \/ \E event \in MouseDownEvents : mousedownListener(event)

SpecDispatch == Init /\ [][NextDispatch]_vars

\* ------------------------------------------------------------------------
\* Vocabulary of the properties
\* ------------------------------------------------------------------------

\* the events the listeners submit to dispatch: keydown, wheel and
\* non-primary mousedown
Dispatched(l) ==
    \/ l.op \in {"keydown", "wheel"}
    \/ l.op = "mousedown" /\ l.ev.button # 0

\* the positions of the registry whose stored combo is the string c
BoundTo(c) == { i \in 1..Len(bindings) : bindings[i].combo = JsString(c) }

\* the positions whose callback the latest event invoked
Invoked == { last.invoked[k] : k \in 1..Len(last.invoked) }

\* how often the latest event invoked the callback at position i
TimesInvoked(i) == Cardinality({ k \in 1..Len(last.invoked) : last.invoked[k] = i })

\* ------------------------------------------------------------------------
\* C1
\* ------------------------------------------------------------------------

\* C1: when two bindings with different callbacks store the same combo, one
\* dispatched event (keydown, wheel or non-primary mousedown) with that combo
\* invokes both callbacks.
C1_BothCallbacksFire ==
    Dispatched(last) =>
        \A i, j \in BoundTo(getComboFromEvent(last.ev)) :
            bindings[i].callback # bindings[j].callback =>
                i \in Invoked /\ j \in Invoked

\* ------------------------------------------------------------------------
\* C2
\* ------------------------------------------------------------------------

\* C2: after unbindAll the registry is empty and stays so until a bind stores
\* a binding, and in that period no keydown, wheel or mousedown event invokes
\* a callback, whatever was bound before.
C2_UnbindAllSilences ==
    cleared.active =>
        /\ bindings = <<>>
        /\ last.op \in {"keydown", "keyup", "wheel", "mousedown"} => last.invoked = <<>>

\* a keydown arrives after unbindAll removed a binding of that very combo
C2_Witness ==
    /\ cleared.active
    /\ last.op = "keydown"
    /\ last.combo # <<>>
    /\ JsString(last.combo) \in cleared.removed

\* ------------------------------------------------------------------------
\* C4
\* ------------------------------------------------------------------------

\* C4: when exactly one binding stores the canonical combo of a keydown event,
\* the event invokes that binding's callback exactly once and invokes no
\* callback of a binding that stores another combo; shift with key ">" or
\* key "." is such an event for the combo "shift+.".
C4_BoundOnceInvokedOnce ==
    last.op = "keydown" =>
        LET c == getComboFromEvent(last.ev) IN
        /\ (last.ev.shiftKey /\ last.ev.key \in {<<">">>, <<".">>}) => c = COMBO_shift_dot
        /\ (c # <<>> /\ Cardinality(BoundTo(c)) = 1) =>
               \A i \in BoundTo(c) : TimesInvoked(i) = 1
        /\ \A i \in Invoked : i \in BoundTo(c)

\* shift and ">" are pressed while "shift+." is bound once, next to a binding
\* of another combo
C4_Witness ==
    /\ last.op = "keydown"
    /\ last.ev.shiftKey
    /\ last.ev.key = <<">">>
    /\ Cardinality(BoundTo(COMBO_shift_dot)) = 1
    /\ Len(bindings) = 2
    /\ \E i \in BoundTo(COMBO_shift_dot) : last.invoked = <<i>>

\* ------------------------------------------------------------------------
\* C5
\* ------------------------------------------------------------------------

\* this step is the call bind(last'.arg, last'.cb)
BindStep ==
    /\ last'.op = "bind"
    /\ \E r \in 0..(RandRange - 1) : bind(last'.arg, last'.cb, r)

\* this step is the call unbind(last'.arg)
UnbindStep ==
    /\ last'.op = "unbind"
    /\ unbind(last'.arg)

\* the list bs without the bindings whose stored combo is v, order kept
Without(bs, v) == SelectSeq(bs, LAMBDA b : b.combo # v)

C6_UnbindIdRemovesThatBinding ==
    [][ (UnbindStep /\ last'.arg.t = "number") =>
            LET held == { i \in 1..Len(bindings) : bindings[i].id = last'.arg.n } IN
            IF held # {}
            THEN /\ \A i \in held : bindings' = Splice(bindings, i)
                 /\ last'.ret = JsBoolean(TRUE)
            ELSE /\ bindings' = bindings
                 /\ last'.ret = JsBoolean(FALSE)
      ]_vars

\* ------------------------------------------------------------------------
\* C7
\* ------------------------------------------------------------------------

\* C7: any two bindings in the registry have different ids.
C7_IdsUnique ==
    \A i, j \in 1..Len(bindings) : i # j => bindings[i].id # bindings[j].id

\* ------------------------------------------------------------------------
\* C8
\* ------------------------------------------------------------------------

\* C8: bind with an empty combo, or with a callback that is not a function,
\* returns -1 and leaves the registry as it was.
C8_InvalidBindRejected ==
    [][ (BindStep /\ (last'.arg = JsString(<<>>) \/ last'.cb.t # "function")) =>
            /\ last'.ret = JsNumber(-1)
            /\ ~last'.threw
            /\ bindings' = bindings
      ]_vars

\* bind was called with the empty combo and a function while a binding exists
C8_Witness ==
    /\ last.op = "bind"
    /\ last.arg = JsString(<<>>)
    /\ last.cb.t = "function"
    /\ last.ret = JsNumber(-1)
    /\ bindings # <<>>

\* ------------------------------------------------------------------------
\* C9
\* ------------------------------------------------------------------------

\* C9: bind with a combo that is not a string (a non-zero number) and a
\* function returns the sentinel -1, raises no exception and leaves the
\* registry as it was.
C9_NonStringComboRejected ==
    [][ (BindStep /\ last'.arg.t # "string" /\ ~Falsy(last'.arg)
             /\ last'.cb.t = "function") =>
            /\ last'.ret = JsNumber(-1)
            /\ ~last'.threw
            /\ bindings' = bindings
      ]_vars

\* ------------------------------------------------------------------------
\* C10
\* ------------------------------------------------------------------------

\* the canonical string of a combo given to bind: its tokens lowercased,
\* trimmed and joined by "+"
Canonical(combo) == Join(parseCombo(combo), "+")

\* C10: a keydown event invokes every binding whose combo, as given to bind,
\* has the event's combo as its canonical string, so a binding made with
\* "Shift + ." is invoked by an event whose combo is "shift+.".
C10_BindNormalisesCombo ==
    (last.op = "keydown" /\ getComboFromEvent(last.ev) # <<>>) =>
        \A i \in 1..Len(bindings) :
            Canonical(bindings[i].combo) = getComboFromEvent(last.ev) => i \in Invoked

\* ------------------------------------------------------------------------
\* C3
\* ------------------------------------------------------------------------

\* C3: once the storage read of a call of initializeShortcuts has resolved,
\* every binding in the registry was created by that call, from the settings
\* it read; no binding of an earlier call remains.
C3_NoStaleBindings ==
    last.op = "shortcutsResolved" =>
        \A i \in 1..Len(bindings) : bindings[i].callback.epoch = last.arg.n

\* ------------------------------------------------------------------------
\* C11
\* ------------------------------------------------------------------------

\* the latest step was a call of getComboFromEvent with an event of this type
ComboCalled(type) == last.op = "getComboFromEvent" /\ last.ev.type = type

\* the event ev with the key k in place of its own
WithKey(ev, k) == [ev EXCEPT !.key = k]

\* the string s ends with the string suffix
EndsWith(s, suffix) ==
    /\ Len(s) >= Len(suffix)
    /\ SubSeq(s, Len(s) - Len(suffix) + 1, Len(s)) = suffix

\* C11: for every setting of the modifier flags, getComboFromEvent returns
\* for a key event with key ">" what it returns for key ".", for key "<" what
\* it returns for key ",", and for key " " a combo that ends with the token
\* "space"; a second call with the same event returns the same combo.
C11_AliasesShareOneCombo ==
    ComboCalled("keydown") =>
        /\ last.ev.key = <<">">> => last.ret = JsString(getComboFromEvent(WithKey(last.ev, <<".">>)))
        /\ last.ev.key = <<"<">> => last.ret = JsString(getComboFromEvent(WithKey(last.ev, <<",">>)))
        /\ last.ev.key = <<" ">> => EndsWith(last.ret.s, STR_space)
        /\ last.ret = JsString(getComboFromEvent(last.ev))

\* getComboFromEvent was called for "<" with shift and ctrl held and returned
\* "shift+ctrl+,"
C11_Witness ==
    /\ ComboCalled("keydown")
    /\ last.ev.key = <<"<">>
    /\ last.ev.shiftKey /\ last.ev.ctrlKey /\ ~last.ev.altKey /\ ~last.ev.metaKey
    /\ last.ret = JsString(STR_shift \o <<"+">> \o STR_ctrl \o <<"+", ",">>)

\* ------------------------------------------------------------------------
\* C12
\* ------------------------------------------------------------------------

\* C12: a keydown event whose key is Shift, Control, Alt or Meta has the empty
\* combo, whatever its modifier flags are, and invokes no callback, whatever
\* bindings are registered.
C12_BareModifierIsSilent ==
    (last.op = "keydown" /\ last.ev.key \in {KEY_Shift, KEY_Control, KEY_Alt, KEY_Meta}) =>
        /\ getComboFromEvent(last.ev) = <<>>
        /\ last.combo = <<>>
        /\ last.invoked = <<>>

\* the Shift key went down with its flag set while "shift" is bound twice
C12_Witness ==
    /\ last.op = "keydown"
    /\ last.ev.key = KEY_Shift
    /\ last.ev.shiftKey /\ ~last.ev.ctrlKey
    /\ Cardinality(BoundTo(STR_shift)) = 2
    /\ last.invoked = <<>>

\* ------------------------------------------------------------------------
\* C13
\* ------------------------------------------------------------------------

ModifierTokens == <<STR_shift, STR_ctrl, STR_alt, STR_cmd>>

\* whether the i-th modifier flag (shift, ctrl, alt, meta) is set on ev
FlagOf(ev, i) ==
    CASE i = 1 -> ev.shiftKey
      [] i = 2 -> ev.ctrlKey
      [] i = 3 -> ev.altKey
      [] i = 4 -> ev.metaKey

\* the tokens of the flags set on ev, in the order shift, ctrl, alt, cmd
HeldModifiers(ev) ==
    LET idx == SelectSeq(<<1, 2, 3, 4>>, LAMBDA i : FlagOf(ev, i))
    IN [k \in 1..Len(idx) |-> ModifierTokens[idx[k]]]

\* the modifier prefix of ev followed by the token primary
WithPrefix(ev, primary) == Join(Append(HeldModifiers(ev), primary), "+")

\* C13: for a wheel event getComboFromEvent returns the modifier prefix
\* followed by "wheel_up" when deltaY is negative and by "wheel_down"
\* otherwise, deltaY zero included; the result is never empty.
C13_WheelCombo ==
    ComboCalled("wheel") =>
        /\ last.ev.deltaY < 0 => last.ret = JsString(WithPrefix(last.ev, STR_wheel_up))
        /\ last.ev.deltaY >= 0 => last.ret = JsString(WithPrefix(last.ev, STR_wheel_down))
        /\ last.ret.s # <<>>

\* getComboFromEvent was called for a wheel event with deltaY 0 and alt held
\* and returned "alt+wheel_down"
C13_Witness ==
    /\ ComboCalled("wheel")
    /\ last.ev.deltaY = 0
    /\ last.ev.altKey /\ ~last.ev.shiftKey /\ ~last.ev.ctrlKey /\ ~last.ev.metaKey
    /\ last.ret = JsString(STR_alt \o <<"+">> \o STR_wheel_down)

\* ------------------------------------------------------------------------
\* C14
\* ------------------------------------------------------------------------

\* C14: for a mousedown event getComboFromEvent returns the modifier prefix
\* followed by "middle_click" when button is 1 and by "mouse" and the button
\* index plus one for every other button: "mouse1" for button 0, "mouse3"
\* for button 2.
C14_MouseDownCombo ==
    ComboCalled("mousedown") =>
        /\ last.ev.button = 1 => last.ret = JsString(WithPrefix(last.ev, STR_middle_click))
        /\ last.ev.button = 0 => last.ret = JsString(WithPrefix(last.ev, STR_mouse \o <<"1">>))
        /\ last.ev.button = 2 => last.ret = JsString(WithPrefix(last.ev, STR_mouse \o <<"3">>))
        /\ last.ev.button # 1 =>
               last.ret = JsString(WithPrefix(last.ev, STR_mouse \o NumberToString(last.ev.button + 1)))

\* getComboFromEvent was called for a right-button mousedown with ctrl held
\* and returned "ctrl+mouse3"
C14_Witness ==
    /\ ComboCalled("mousedown")
    /\ last.ev.button = 2
    /\ last.ev.ctrlKey /\ ~last.ev.shiftKey /\ ~last.ev.altKey /\ ~last.ev.metaKey
    /\ last.ret = JsString(STR_ctrl \o <<"+">> \o STR_mouse \o <<"3">>)

\* ------------------------------------------------------------------------
\* C15
\* ------------------------------------------------------------------------

\* the primary tokens of the events: none is empty or a modifier token
PrimaryTokens ==
    { <<".">>, <<",">>, STR_space, <<"a">>, <<"+">>, STR_wheel_up, STR_wheel_down,
      STR_middle_click, STR_mouse \o <<"1">>, STR_mouse \o <<"3">> }

\* C15: every non-empty combo getComboFromEvent returns is the tokens of the
\* modifier flags set on the event, each once and in the order shift, ctrl,
\* alt, cmd, followed by exactly one primary token, all joined by "+"; the
\* token of a flag that is not set does not appear.
C15_ModifiersThenOnePrimary ==
    (last.op = "getComboFromEvent" /\ last.ret.s # <<>>) =>
        \E primary \in PrimaryTokens :
            last.ret = JsString(Join(HeldModifiers(last.ev) \o <<primary>>, "+"))

\* getComboFromEvent was called for the key "A" with all four flags set and
\* returned "shift+ctrl+alt+cmd+a"
C15_Witness ==
    /\ ComboCalled("keydown")
    /\ last.ev.key = <<"A">>
    /\ last.ev.shiftKey /\ last.ev.ctrlKey /\ last.ev.altKey /\ last.ev.metaKey
    /\ last.ret = JsString(STR_shift \o <<"+">> \o STR_ctrl \o <<"+">> \o STR_alt
                            \o <<"+">> \o STR_cmd \o <<"+", "a">>)

\* ------------------------------------------------------------------------
\* C16
\* ------------------------------------------------------------------------

\* this step is the call getComboFromEvent(last'.ev)
GetComboStep ==
    /\ last'.op = "getComboFromEvent"
    /\ getComboFromEventCall(last'.ev)

\* the combo of an event as its own fields determine it
ComboOfFields(ev) ==
    IF ev.type = "wheel"
    THEN WithPrefix(ev, IF ev.deltaY < 0 THEN STR_wheel_up ELSE STR_wheel_down)
    ELSE IF ev.type = "mousedown"
    THEN WithPrefix(ev, IF ev.button = 1 THEN STR_middle_click
                        ELSE STR_mouse \o NumberToString(ev.button + 1))
    ELSE IF ev.key \in {KEY_Shift, KEY_Control, KEY_Alt, KEY_Meta} THEN <<>>
    ELSE WithPrefix(ev, CASE ev.key = <<">">> -> <<".">>
                          [] ev.key = <<"<">> -> <<",">>
                          [] ev.key = <<" ">> -> STR_space
                          [] OTHER -> ToLowerCase(ev.key))

\* C16: a call of getComboFromEvent leaves the binding list and the cached
\* modifier state as they were, and what it returns is determined by the
\* event's type, modifier flags, key, button and deltaY alone, whatever the
\* cached modifier state is.
C16_GetComboIsPure ==
    [][ GetComboStep =>
            /\ bindings' = bindings
            /\ modifierState' = modifierState
            /\ last'.ret = JsString(ComboOfFields(last'.ev))
      ]_vars

\* getComboFromEvent was called for "." without the shift flag while the
\* cached modifier state has shift held, and returned "."
C16_Witness ==
    /\ ComboCalled("keydown")
    /\ last.ev.key = <<".">>
    /\ ~last.ev.shiftKey /\ ~last.ev.ctrlKey /\ ~last.ev.altKey /\ ~last.ev.metaKey
    /\ modifierState.shift
    /\ last.ret = JsString(<<".">>)

\* ------------------------------------------------------------------------
\* C17
\* ------------------------------------------------------------------------

\* a binding that matches the latest event has a callback returning the
\* boolean false
SomeMatchReturnsFalse ==
    \E i \in BoundTo(getComboFromEvent(last.ev)) :
        bindings[i].callback.ret = JsBoolean(FALSE)

\* C17: a keydown event has its default action prevented, and its
\* propagation stopped, exactly when the callback of at least one matching
\* binding returned the boolean false; with no matching binding, or with
\* matching callbacks that all return something else, it is not suppressed.
C17_SuppressedIffFalseReturned ==
    last.op = "keydown" =>
        /\ last.prevented <=> SomeMatchReturnsFalse
        /\ last.stopped <=> SomeMatchReturnsFalse

\* shift and ">" went down while "shift+." is bound to a callback returning
\* 0 and to one returning false: both ran and the event was suppressed
C17_Witness ==
    /\ last.op = "keydown"
    /\ Len(bindings) = 2
    /\ bindings[1].combo = JsString(COMBO_shift_dot) /\ bindings[1].callback = FnZero
    /\ bindings[2].combo = JsString(COMBO_shift_dot) /\ bindings[2].callback = FnF
    /\ last.invoked = <<1, 2>>
    /\ last.prevented /\ last.stopped

\* ------------------------------------------------------------------------
\* C18
\* ------------------------------------------------------------------------

EventStep ==
    /\ last'.op \in {"keydown", "wheel", "mousedown"}
    /\ \/ handleKeyEvent(last'.ev)
       \/ handleMouseEvent(last'.ev)
       \/ mousedownListener(last'.ev)

\* C19: when a keydown, wheel or non-primary mousedown event arrives and no
\* binding stores its combo, no callback is invoked, the event is neither
\* prevented nor stopped, and the registry stays as it was.
C19_UnmatchedEventIsNoOp ==
    [][ (/\ EventStep
         /\ Dispatched(last')
         /\ \A i \in 1..Len(bindings) :
                bindings[i].combo # JsString(getComboFromEvent(last'.ev))) =>
            /\ last'.invoked = <<>>
            /\ ~last'.prevented
            /\ ~last'.stopped
            /\ bindings' = bindings
      ]_vars

\* the right button went down while only other combos are bound
C19_Witness ==
    /\ last.op = "mousedown"
    /\ last.ev.button = 2
    /\ Len(bindings) = 2
    /\ BoundTo(STR_mouse \o <<"3">>) = {}
    /\ last.invoked = <<>>
    /\ ~last.prevented

\* ------------------------------------------------------------------------
\* C20
\* ------------------------------------------------------------------------

\* the elements of the list bs at the positions in the set kept, in list order
Keep(bs, kept) ==
    LET idx == SelectSeq([i \in 1..Len(bs) |-> i], LAMBDA i : i \in kept)
    IN [k \in 1..Len(idx) |-> bs[idx[k]]]

\* new holds bindings of old in their old order, and after them at most one
\* binding more
KeepsOrder(old, new) ==
    \E kept \in SUBSET (1..Len(old)) :
        \/ new = Keep(old, kept)
        \/ /\ Len(new) = Cardinality(kept) + 1
           /\ SubSeq(new, 1, Len(new) - 1) = Keep(old, kept)

\* the positions of seq increase
Ascending(seq) == \A k \in 1..(Len(seq) - 1) : seq[k] < seq[k + 1]

CurrentSpeed == playbackRateGet(videos[Len(videos)])

\* C21: the playback speed of the video stays between 0.1x and 10x, whatever
\* shortcuts are pressed, whatever is assigned to playbackRate and whatever
\* settings arrive.
C21_SpeedWithinLimits ==
    video => 10 * Hundredth <= CurrentSpeed /\ CurrentSpeed <= 10 * One

\* ------------------------------------------------------------------------
\* C22
\* ------------------------------------------------------------------------

\* the latest event invoked the closure name of initializeShortcuts
Pressed(name) ==
    /\ last.op = "keydown"
    /\ \E k \in 1..Len(last.invoked) : bindings[last.invoked[k]].callback.fn = name

\* C22: once the reset shortcut has been pressed and the transition it may
\* have started has ended, the video plays at exactly 1x, whatever speed it
\* had and whatever increment of the slider is in use.
C22_ResetGivesNormalSpeed ==
    Pressed("reset") /\ anims = <<>> => CurrentSpeed = One

\* ------------------------------------------------------------------------
\* C23
\* ------------------------------------------------------------------------

\* C23: when the video has settled at 1.0x and the increase shortcut is then
\* pressed n times, far from the limits, the video settles at 1.0x plus n
\* times the increment, however the presses fall between the animation
\* frames of the transitions.
C23_EachPressAddsOneIncrement ==
    anims = <<>> => CurrentSpeed = One + presses * closures[1].increment

\* ------------------------------------------------------------------------
\* C24
\* ------------------------------------------------------------------------

\* C24: while no persistSpeed has been stored the settings panel shows the
\* toggle unchecked, and a timer that init has set for the video assigns
\* 1.0x, not the stored lastSpeed.
C24_PersistenceOffByDefault ==
    storage.persistSpeed = JsUndefined =>
        /\ ~persistSpeedToggle(storage)
        /\ \A j \in jobs : j.kind = "applyTimer" => j.v = One

\* ------------------------------------------------------------------------
\* C26
\* ------------------------------------------------------------------------

\* every run of init has read the settings and its timer has fired, and no
\* change of address waits to be detected
LoadsComplete ==
    /\ timers = 0
    /\ href = lastUrl
    /\ \A j \in jobs : j.kind \notin {"settingsRead", "applyTimer"}

\* C26: with persistSpeed on and a lastSpeed stored, once the runs of init
\* on a watch page have completed, the video of the page plays at the
\* stored lastSpeed.
C26_LastSpeedRestored ==
    /\ storage.persistSpeed = JsBoolean(TRUE)
    /\ storage.lastSpeed # JsUndefined
    /\ IsWatchPage(href)
    /\ LoadsComplete
    /\ video /\ Len(videos) = 1
    => CurrentSpeed = storage.lastSpeed.n

\* ------------------------------------------------------------------------
\* C25
\* ------------------------------------------------------------------------

\* C25: while enableShortcuts is stored as false and the content script has
\* processed the settingsUpdated message that carried it, no event that
\* reaches the shortcuts changes the speed of a video or starts a
\* transition.
C25_DisabledShortcutsAreSilent ==
    [][ /\ storage.enableShortcuts = JsBoolean(FALSE)
        /\ cache.enableShortcuts = JsBoolean(FALSE)
        /\ EventStep
        => videos' = videos /\ anims' = anims ]_vars

\* ------------------------------------------------------------------------
\* C27
\* ------------------------------------------------------------------------

\* the latest step assigned the playbackRate of the video in the document,
\* which has its override
AssignedThroughOverride ==
    /\ last.op \in {"playerSetsRate", "speedApplied"}
    /\ video
    /\ videos[Len(videos)].enabled

RunJobs(id) == { j \in jobs : j.id = id /\ j.kind \in {"limitRead", "retryTimer"} }

\* what a run can still do: two steps for every attempt left, and one more
\* while the answer of removeSpeedLimit is awaited
Rank(js) ==
    IF js = {} THEN 0
    ELSE LET j == CHOOSE j \in js : TRUE
         IN 2 * (maxAttempts - j.n) + (IF j.kind = "limitRead" THEN 1 ELSE 0)

\* C28: a run of initWithRetry counts at most 3 attempts, has at most one
\* call of removeSpeedLimit or retry timer pending, and every step of the
\* run brings it nearer to its end: once it has succeeded or has used its
\* attempts, nothing of it is pending and nothing is started again.
C28_RetryIsBounded ==
    [][ \A id \in 1..MaxEpoch :
          /\ \A j \in RunJobs(id)' : j.n <= maxAttempts
          /\ Cardinality(RunJobs(id)') <= 1
          /\ RunJobs(id)' # RunJobs(id) =>
                \/ Rank(RunJobs(id)') < Rank(RunJobs(id))
                \/ id = epoch' /\ epoch' # epoch ]_vars

\* a run has seen its third call of removeSpeedLimit fail and has stopped
C28_Witness ==
    /\ last.op = "limitFailed"
    /\ RunJobs(last.arg.n) = {}

\* ------------------------------------------------------------------------
\* C29
\* ------------------------------------------------------------------------

\* the step is handleMessage of a settingsUpdated message that carries a
\* speedIncrement, with a video in the document that has its override
UpdateProcessed ==
    /\ epoch' # epoch
    /\ last'.op = "settingsUpdated"
    /\ ~Falsy(last'.arg)
    /\ video
    /\ videos[Len(videos)].enabled

\* C29: when a settingsUpdated message carrying the speedIncrement m has
\* been processed, the speed of the video is at least m: a speed below m
\* has become m, and lastSpeed = m has been written to the storage; a speed
\* of at least m is unchanged.
C29_UpdateRaisesSpeedToMinimum ==
    [][ UpdateProcessed =>
          LET m == last'.arg.n
          IN /\ CurrentSpeed' >= m
             /\ CurrentSpeed < m =>
                   /\ CurrentSpeed' = m
                   /\ storage'.lastSpeed = JsNumber(m)
             /\ CurrentSpeed >= m => CurrentSpeed' = CurrentSpeed ]_vars

\* no key has been pressed, so that the lastSpeed stored, which equals the
\* increment 0.5 of the message, has been written while the video was raised
C29_Witness ==
    /\ last.op = "settingsUpdated"
    /\ last.arg = JsNumber(sliderToIncrement(10))
    /\ presses = 0
    /\ video
    /\ CurrentSpeed = sliderToIncrement(10)
    /\ storage.lastSpeed = last.arg

\* ------------------------------------------------------------------------
\* The settings panel: the slider and the reset to defaults
\* ------------------------------------------------------------------------

\* what the panel has under way: a read of lastSpeed, or a write of the
\* settings it has made up from that read (n the speedIncrement, v the
\* lastSpeed to write, 0 for none)
PanelJobs == { j \in jobs : j.kind \in {"sliderRead", "sliderSet", "resetRead", "resetSet"} }

\* defaultSettings of resetAllToDefaults
defaultSettings ==
    [speedIncrement |-> JsNumber(25 * Hundredth),
     increaseSpeedKey |-> JsString(STR_shift \o <<"+", ".">>),
     decreaseSpeedKey |-> JsString(STR_shift \o <<"+", ",">>),
     resetSpeedKey |-> JsString(STR_shift \o <<"+", "?">>),
     persistSpeed |-> JsBoolean(FALSE),
     enableShortcuts |-> JsBoolean(TRUE)]

\* the change listener of the slider: the increment is computed and the
\* read of lastSpeed started
sliderChange(value) ==
    /\ PanelJobs = {}
    /\ jobs' = jobs \cup { Job("sliderRead", 0, 0, sliderToIncrement(value), 0) }
    /\ UNCHANGED <<storage, video, href, lastUrl, timers, tasks, epoch, last>>
    /\ UNCHANGED <<videos, cache, closures, anims, presses>>
    /\ UNCHANGED keyHandlerVars

\* the read of the slider's listener resolves: saveSettings is called with
\* the increment, and with lastSpeed when the one read is below it
sliderLastSpeedRead ==
    /\ \E j \in Pending("sliderRead", 0) :
          LET lastSpeed == IF Falsy(storage.lastSpeed) THEN One ELSE storage.lastSpeed.n
          IN jobs' = (jobs \ {j}) \cup
                     { Job("sliderSet", 0, 0, j.n, IF lastSpeed < j.n THEN j.n ELSE 0) }
    /\ UNCHANGED <<storage, video, href, lastUrl, timers, tasks, epoch, last>>
    /\ UNCHANGED <<videos, cache, closures, anims, presses>>
    /\ UNCHANGED keyHandlerVars

\* the browser.storage.local.set of saveSettings is carried out
sliderSaved ==
    /\ \E j \in Pending("sliderSet", 0) :
          /\ storage' = storageSet(storage,
                            IF j.v = 0
                            THEN [speedIncrement |-> JsNumber(j.n)]
                            ELSE [speedIncrement |-> JsNumber(j.n), lastSpeed |-> JsNumber(j.v)])
          /\ jobs' = jobs \ {j}
          /\ last' = CallOutcome("saveSettings", JsNumber(j.n), NotAFunction, JsUndefined, FALSE, 0)
    /\ UNCHANGED <<video, href, lastUrl, timers, tasks, epoch>>
    /\ UNCHANGED <<videos, cache, closures, anims, presses>>
    /\ UNCHANGED keyHandlerVars

\* resetAllToDefaults(): the read of lastSpeed is started
resetAllToDefaults ==
    /\ PanelJobs = {}
    /\ jobs' = jobs \cup { Job("resetRead", 0, 0, defaultSettings.speedIncrement.n, 0) }
    /\ UNCHANGED <<storage, video, href, lastUrl, timers, tasks, epoch, last>>
    /\ UNCHANGED <<videos, cache, closures, anims, presses>>
    /\ UNCHANGED keyHandlerVars

\* the read of resetAllToDefaults resolves: completeReset is called with the
\* defaults, and with lastSpeed when the one read exists and is below the
\* default increment
resetLastSpeedRead ==
    /\ \E j \in Pending("resetRead", 0) :
          jobs' = (jobs \ {j}) \cup
                  { Job("resetSet", 0, 0, j.n,
                        IF ~Falsy(storage.lastSpeed) /\ storage.lastSpeed.n < j.n
                        THEN j.n ELSE 0) }
    /\ UNCHANGED <<storage, video, href, lastUrl, timers, tasks, epoch, last>>
    /\ UNCHANGED <<videos, cache, closures, anims, presses>>
    /\ UNCHANGED keyHandlerVars

\* the browser.storage.local.set of completeReset is carried out
completeReset ==
    /\ \E j \in Pending("resetSet", 0) :
          /\ storage' = storageSet(storage,
                            IF j.v = 0
                            THEN defaultSettings
                            ELSE [k \in DOMAIN defaultSettings \cup {"lastSpeed"} |->
                                     IF k = "lastSpeed" THEN JsNumber(j.v)
                                     ELSE defaultSettings[k]])
          /\ jobs' = jobs \ {j}
          /\ last' = CallOutcome("completeReset", JsNumber(j.n), NotAFunction, JsUndefined, FALSE, 0)
    /\ UNCHANGED <<video, href, lastUrl, timers, tasks, epoch>>
    /\ UNCHANGED <<videos, cache, closures, anims, presses>>
    /\ UNCHANGED keyHandlerVars

\* the panel is used while a video plays in a tab: the slider is moved and
\* the settings are reset, the shortcuts that increase and decrease the speed
\* are pressed, and the tab is told of the settings stored
NextPanel ==
    \/ \E value \in {10, 20} : sliderChange(value)
    \/ sliderLastSpeedRead
    \/ sliderSaved
    \/ resetAllToDefaults
    \/ resetLastSpeedRead
    \/ completeReset
    \/ \E k \in {">", "<"} : handleKeyEvent(Event("keydown", TRUE, <<k>>, 0, 0))
    \/ animationFrame
    \/ handleMessage(PanelMessage)
    \/ \E e \in 1..MaxEpoch : shortcutsResolved(e, 0, 0, 0)

\* the slider stands at 0.05 when the panel opens, and the lastSpeed stored
\* is below or above the default increment
SpecPanel == InitSpeedWith({1}, {10 * Hundredth, One}) /\ [][NextPanel]_vars

\* ------------------------------------------------------------------------
\* C30
\* ------------------------------------------------------------------------

\* the latest step has carried out the write of a slider change or of a
\* reset, and the panel has nothing more under way
PanelWriteCompleted ==
    /\ last.op \in {"saveSettings", "completeReset"}
    /\ PanelJobs = {}

\* C30: when the settings panel has completed the write of a slider change
\* or of a reset to defaults, the lastSpeed stored, if there is one, is at
\* least the speedIncrement stored, whatever lastSpeed the content script
\* has written in between.
C30_LastSpeedAtLeastIncrement ==
    PanelWriteCompleted =>
        \/ storage.lastSpeed = JsUndefined
        \/ storage.lastSpeed.n >= storage.speedIncrement.n

\* ------------------------------------------------------------------------
\* C31
\* ------------------------------------------------------------------------

\* C31: when handleMouseEvent has invoked a callback for a wheel or mousedown
\* event, the code that called it had prevented the default action of the
\* event and stopped its propagation.
C31_PointerEventSuppressedBeforeCallback ==
    (last.op \in {"wheel", "mousedown"} /\ last.invoked # <<>>) =>
        /\ last.prevented
        /\ last.stopped

\* ------------------------------------------------------------------------
\* C36
\* ------------------------------------------------------------------------

\* the step is the then-callback of removeSpeedLimit, which defines the
\* playbackRate property on the video the call has found
OverrideInstalled ==
    /\ last'.op = "limitRemoved"
    /\ jobs' # jobs

\* C36: the override of playbackRate is defined on a video at most once:
\* no call of removeSpeedLimit defines it on a video that has the attribute
\* data-custom-speed-enabled already.
C36_OverrideInstalledOnce ==
    [][ OverrideInstalled => \A j \in jobs \ jobs' : ~videos[j.g].enabled ]_vars

\* ------------------------------------------------------------------------
\* The shortcuts pressed while init is still under way
\* ------------------------------------------------------------------------

\* init() has run on a watch page: its reads resolve, its timer fires, and
\* the shortcuts are pressed as soon as they are bound
NextRestore ==
    \/ \E id \in 1..MaxEpoch : settingsLoaded(id)
    \/ \E id \in 1..MaxEpoch : speedApplied(id)
    \/ \E id \in 1..MaxEpoch : limitRemoved(id)
    \/ \E e \in 1..MaxEpoch : shortcutsResolved(e, 0, 0, 0)
    \/ \E event \in SpeedKeyEvents : handleKeyEvent(event)
    \/ animationFrame

SpecRestore == InitLoad /\ [][NextRestore]_vars

\* ------------------------------------------------------------------------
\* C37
\* ------------------------------------------------------------------------

\* the latest event was a press of a speed shortcut, made after the read of
\* loadAndApplySettings had resolved, its transition is over, and the step
\* is the timer of loadAndApplySettings assigning the speed of the video
\* in the document
RestoreAfterPress ==
    /\ \E name \in ShortcutNames : Pressed(name)
    /\ anims = <<>>
    /\ video
    /\ last'.op = "speedApplied"
    /\ jobs' # jobs
    /\ \A j \in jobs \ jobs' : j.g = Len(videos)

\* C37: when a shortcut has changed the speed after loadAndApplySettings has
\* read the storage and before its timer of 500 ms fires, the speed of the
\* video after the timer has fired is still the speed the user chose.
C37_RestoreKeepsUserSpeed ==
    [][ RestoreAfterPress => CurrentSpeed' = CurrentSpeed ]_vars

\* ------------------------------------------------------------------------
\* C38
\* ------------------------------------------------------------------------

\* no animation frame, timer, storage read or call of init is pending
Quiescent ==
    /\ anims = <<>>
    /\ jobs = {}
    /\ tasks = {}
    /\ timers = 0

\* C38: in a quiescent state reached after presses of the shortcuts and
\* updates of the settings, the lastSpeed stored is the speed of the video.
C38_StoredSpeedIsAppliedSpeed ==
    (Quiescent /\ presses > 0 /\ video) => storage.lastSpeed = JsNumber(CurrentSpeed)

\* ------------------------------------------------------------------------
\* C39
\* ------------------------------------------------------------------------

\* C39: the registry of the content script never holds more than three
\* bindings, whatever runs of init, changes of address and messages of the
\* settings panel have been processed, in whatever order their storage reads
\* resolve.
C39_AtMostThreeBindings == Len(bindings) <= 3

\* a second call of initializeShortcuts has replaced the three bindings of
\* the first
C39_Witness ==
    /\ last.op = "shortcutsResolved"
    /\ last.arg.n > 1
    /\ Len(bindings) = 3
    /\ \A i \in 1..3 : bindings[i].callback.epoch = last.arg.n

\* ------------------------------------------------------------------------
\* The settings panel: recording shortcuts
\* ------------------------------------------------------------------------

\* the panel as the listeners of the sessions find it
RecordingPanel ==
    [sessions |-> recording.sessions, listening |-> recording.listening,
     text |-> recording.text, loads |-> recording.loads,
     input |-> recording.input, storage |-> storage]

\* the part of the panel that is not the storage
RecordingOf(p, input) ==
    [sessions |-> p.sessions, listening |-> p.listening,
     text |-> p.text, loads |-> p.loads, input |-> input]

\* the panel after the event op on target has been handled
RecordingBecomes(p, op, target) ==
    /\ recording' = RecordingOf(p, [op |-> op, target |-> target,
                                     flip |-> ~recording.input.flip])
    /\ storage' = p.storage
    /\ UNCHANGED <<bindings, modifierState, now, last, cleared>>
    /\ UNCHANGED <<video, href, lastUrl, timers, tasks, epoch>>
    /\ UNCHANGED pageVars

\* a keydown, a wheel event or a mousedown of the middle or right button
\* on target reaches the document of the panel
panelEvent(e, target) ==
    /\ \E s \in 1..Len(recording.sessions) : recording.sessions[s].attached
    /\ RecordingBecomes(dispatchToSessions(RecordingPanel, 1, e, target), e.type, target)

\* the user clicks on target with the left button: the mousedown and then
\* the click reach the capture listeners on the document, and the click
\* then reaches the click listener of a shortcut button
panelClick(target) ==
    /\ target \in ShortcutButtons => Len(recording.sessions) < MaxSessions
    /\ LET mousedown == Event("mousedown", FALSE, <<>>, 0, 0)
           pressed == dispatchToSessions(RecordingPanel, 1, mousedown, target)
           clicked == dispatchToSessions(pressed, 1, [mousedown EXCEPT !.type = "click"], target)
       IN RecordingBecomes(IF target \in ShortcutButtons
                           THEN handleKeyBinding(clicked, target)
                           ELSE clicked,
                           "click", target)

\* the timer of 100 ms of the session s fires and attaches its click
\* listener; timers of the same delay fire in the order they were set in
clickTimer(s) ==
    /\ s \in 1..Len(recording.sessions)
    /\ recording.sessions[s].clickTimer
    /\ \A r \in 1..(s - 1) : ~recording.sessions[r].clickTimer
    /\ recording' = [recording EXCEPT !.sessions[s].clickTimer = FALSE,
                                      !.sessions[s].clickAttached = TRUE]
    /\ UNCHANGED <<bindings, modifierState, now, last, cleared, storage>>
    /\ UNCHANGED <<video, href, lastUrl, timers, tasks, epoch>>
    /\ UNCHANGED pageVars

\* recordTimeout of the session s fires, 300 ms after the key press
recordTimer(s) ==
    /\ s \in 1..Len(recording.sessions)
    /\ recording.sessions[s].recordTimeout # <<>>
    /\ ~recording.sessions[s].clickTimer
    /\ LET p == finishRecording(RecordingPanel, s, recording.sessions[s].recordTimeout)
       IN /\ recording' = RecordingOf(p, p.input)
          /\ storage' = p.storage
    /\ UNCHANGED <<bindings, modifierState, now, last, cleared>>
    /\ UNCHANGED <<video, href, lastUrl, timers, tasks, epoch>>
    /\ UNCHANGED pageVars

\* the safety timeout of the session s fires, 10 s after its start
safetyTimer(s) ==
    /\ s \in 1..Len(recording.sessions)
    /\ recording.sessions[s].safetyTimer
    /\ ~recording.sessions[s].clickTimer
    /\ \A r \in 1..(s - 1) : ~recording.sessions[r].safetyTimer
    /\ LET fired == [RecordingPanel EXCEPT !.sessions[s].safetyTimer = FALSE]
           p == IF recording.sessions[s].button \in recording.listening
                THEN finishRecording(fired, s, <<>>)
                ELSE fired
       IN /\ recording' = RecordingOf(p, p.input)
          /\ storage' = p.storage
    /\ UNCHANGED <<bindings, modifierState, now, last, cleared>>
    /\ UNCHANGED <<video, href, lastUrl, timers, tasks, epoch>>
    /\ UNCHANGED pageVars

\* the storage read of loadButtonText(button) resolves
textLoaded(button) ==
    /\ button \in recording.loads
    /\ recording' = [recording EXCEPT
                        !.loads = @ \ {button},
                        !.text[button] = IF Falsy(storage[button])
                                         THEN ButtonText("default", <<>>)
                                         ELSE ButtonText("combo", storage[button].s)]
    /\ UNCHANGED <<bindings, modifierState, now, last, cleared, storage>>
    /\ UNCHANGED <<video, href, lastUrl, timers, tasks, epoch>>
    /\ UNCHANGED pageVars

\* what the user does while a button listens: Shift+>, Escape, Shift alone,
\* the wheel, the middle and the right button
RecordingEvents ==
    { Event("keydown", TRUE, <<">">>, 0, 0),
      Event("keydown", FALSE, <<"E", "s", "c", "a", "p", "e">>, 0, 0),
      Event("keydown", TRUE, KEY_Shift, 0, 0),
      Event("wheel", FALSE, <<>>, 0, -1),
      Event("mousedown", FALSE, <<>>, 1, 0),
      Event("mousedown", FALSE, <<>>, 2, 0) }

NextRecording ==
    \/ \E target \in ShortcutButtons \cup {"body"} : panelClick(target)
    \/ \E e \in RecordingEvents : panelEvent(e, "body")
    \/ \E s \in 1..MaxSessions : clickTimer(s)
    \/ \E s \in 1..MaxSessions : recordTimer(s)
    \/ \E s \in 1..MaxSessions : safetyTimer(s)
    \/ \E button \in ShortcutButtons : textLoaded(button)

SpecRecording == Init /\ [][NextRecording]_vars

\* ------------------------------------------------------------------------
\* C32
\* ------------------------------------------------------------------------

\* the step is a click of the user, on something else than the button of
\* the session s, which is listening and has its click listener attached
ClickedElsewhere(s) ==
    /\ recording'.input # recording.input
    /\ recording'.input.op = "click"
    /\ recording.sessions[s].isListening
    /\ recording.sessions[s].attached
    /\ recording.sessions[s].clickAttached
    /\ recording'.input.target # recording.sessions[s].button

\* C32: a click elsewhere than on the listening button cancels the
\* recording: the session stops listening, nothing is saved, and the text
\* of the button is loaded again from the stored shortcut.
C32_ClickElsewhereCancels ==
    [][ \A s \in 1..Len(recording.sessions) :
          ClickedElsewhere(s) =>
              /\ ~recording'.sessions[s].isListening
              /\ storage' = storage
              /\ recording.sessions[s].button \in recording'.loads ]_vars

\* ------------------------------------------------------------------------
\* C33
\* ------------------------------------------------------------------------

\* the session s is over: it has no listener attached and can save nothing
SessionOver(s) ==
    /\ ~recording.sessions[s].isListening
    /\ ~recording.sessions[s].attached
    /\ ~recording.sessions[s].clickAttached
    /\ recording.sessions[s].recordTimeout = <<>>

\* C33: once the safety timeout of a session has fired, 10 seconds after
\* its start, the session is over: its keydown, wheel, mousedown and click
\* listeners are removed and it saves no setting any more.
C33_SessionEndsWithSafetyTimeout ==
    \A s \in 1..Len(recording.sessions) :
        ~recording.sessions[s].safetyTimer => SessionOver(s)

\* ------------------------------------------------------------------------
\* C34
\* ------------------------------------------------------------------------

\* the sessions that capture input
Capturing ==
    { s \in 1..Len(recording.sessions) :
        recording.sessions[s].attached /\ recording.sessions[s].isListening }

\* C34: at most one recording session captures input at any time.
C34_OneSessionCaptures == Cardinality(Capturing) <= 1

\* ------------------------------------------------------------------------
\* C35
\* ------------------------------------------------------------------------

\* the callbacks invoked in the content script by the event e when combo is
\* what it has bound
InvokedWhenBound(combo, e) ==
    LET bs == bindResult(<<>>, now, 0, JsString(combo), FnF).bindings
    IN IF e.type = "keydown" THEN handleKeyEventResult(bs, modifierState, e).invoked
       ELSE IF e.type = "wheel" THEN wheelListenerResult(bs, e).invoked
       ELSE mousedownListenerResult(bs, e).invoked

\* C35: for every combo a recording session has saved, the input that was
\* recorded invokes the callback the content script binds to that combo.
C35_SavedComboCanBeActedOn ==
    \A s \in 1..Len(recording.sessions) :
        recording.sessions[s].saved # <<>> =>
            InvokedWhenBound(recording.sessions[s].saved, recording.sessions[s].event) # <<>>


====
